---- MODULE Spec2Model ----
(***************************************************************************)
(* Model of the metasync verification core: the column classifier, the     *)
(* identifier recognizer, the four registry adapters, verifyUUID, the      *)
(* sheet verifiers (registry mode, the 10-row demo revision of registry    *)
(* mode, and O3-form mode).                                                *)
(*                                                                         *)
(* JavaScript strings are TLA+ strings; characters are read with SubSeq.   *)
(* Row and column indices are 0-based as in the source, so row i of the    *)
(* sheet is data[i + 1] and cell c of a row is row[c + 1].                 *)
(***************************************************************************)
EXTENDS Integers, Sequences, FiniteSets, TLC

(***************************************************************************)
(* JavaScript values                                                       *)
(***************************************************************************)
\* the JavaScript value undefined (also: a hole in a row)
Undefined == "<undefined>"
\* the JavaScript value null
Null == "<null>"
\* a column index that was not found (null in the source)
NoColumn == -1

\* JavaScript truthiness of a string-or-undefined-or-null value
Truthy(v) == v \notin {Undefined, Null, ""}

\* String(v) for a cell value
JsString(v) == IF v = Undefined THEN "undefined" ELSE IF v = Null THEN "null" ELSE v

Char(s, i) == SubSeq(s, i, i)

LowerLetters == "abcdefghijklmnopqrstuvwxyz"
UpperLetters == "ABCDEFGHIJKLMNOPQRSTUVWXYZ"

\* the case mappings of the 26 ASCII letters, as lookup tables
UpperOf == [i \in 1..26 |-> Char(UpperLetters, i)]
LowerOf == [i \in 1..26 |-> Char(LowerLetters, i)]
ToUpperTable == [c \in {LowerOf[i] : i \in 1..26} |-> UpperOf[CHOOSE i \in 1..26 : LowerOf[i] = c]]
ToLowerTable == [c \in {UpperOf[i] : i \in 1..26} |-> LowerOf[CHOOSE i \in 1..26 : UpperOf[i] = c]]

ToUpperChar(c) == IF c \in DOMAIN ToUpperTable THEN ToUpperTable[c] ELSE c

ToLowerChar(c) == IF c \in DOMAIN ToLowerTable THEN ToLowerTable[c] ELSE c

RECURSIVE ToUpperCase(_)
ToUpperCase(s) == IF s = "" THEN "" ELSE ToUpperChar(Head(s)) \o ToUpperCase(Tail(s))

RECURSIVE ToLowerCase(_)
ToLowerCase(s) == IF s = "" THEN "" ELSE ToLowerChar(Head(s)) \o ToLowerCase(Tail(s))

WhiteSpace == {" ", "\t", "\n", "\r"}

RECURSIVE TrimStart(_)
TrimStart(s) == IF s # "" /\ Head(s) \in WhiteSpace THEN TrimStart(Tail(s)) ELSE s

RECURSIVE TrimEnd(_)
TrimEnd(s) ==
  IF s # "" /\ Char(s, Len(s)) \in WhiteSpace THEN TrimEnd(SubSeq(s, 1, Len(s) - 1)) ELSE s

Trim(s) == TrimEnd(TrimStart(s))

\* String.prototype.includes
Includes(s, sub) ==
  \E i \in 1..(Len(s) - Len(sub) + 1) : SubSeq(s, i, i + Len(sub) - 1) = sub

\* Array.prototype.some over a sequence of names
SomeName(names, P(_)) == \E k \in 1..Len(names) : P(names[k])

(***************************************************************************)
(* Identifier recognizer                                                   *)
(***************************************************************************)
HexChars == {"0", "1", "2", "3", "4", "5", "6", "7", "8", "9",
             "a", "b", "c", "d", "e", "f", "A", "B", "C", "D", "E", "F"}
VersionChars == {"1", "2", "3", "4", "5"}
VariantChars == {"8", "9", "a", "b", "A", "B"}
HyphenPositions == {9, 14, 19, 24}

\* UUID_REGEX.test(str): 8-4-4-4-12 hex groups, version nibble 1..5,
\* variant nibble 8,9,a,b, case-insensitive
isUUID(str) ==
  /\ Len(str) = 36
  /\ \A i \in 1..36 :
       IF i \in HyphenPositions THEN Char(str, i) = "-"
       ELSE IF i = 15 THEN Char(str, i) \in VersionChars
       ELSE IF i = 20 THEN Char(str, i) \in VariantChars
       ELSE Char(str, i) \in HexChars

NOT_FOUND_INDICATORS == <<"N/A", "NA", "TBD", "PENDING", "NOT FOUND", "NOTFOUND", "NOT_FOUND">>

\* the indicator test without toUpperCase() and trim()
IsNotFoundIndicator_Exact(uuidValue) ==
  \E k \in 1..Len(NOT_FOUND_INDICATORS) : uuidValue = NOT_FOUND_INDICATORS[k]

\* NOT_FOUND_INDICATORS.some(indicator => uuidValue.toUpperCase().trim() === indicator)
IsNotFoundIndicator(uuidValue) ==
  LET upperTrimmed == Trim(ToUpperCase(uuidValue))
      LAMBDA_eq(indicator) == upperTrimmed = indicator
  IN SomeName(NOT_FOUND_INDICATORS, LAMBDA_eq)

(***************************************************************************)
(* Column classifier                                                       *)
(***************************************************************************)
UUID_COLUMN_NAMES == <<"EMR_Concept_UUID", "uuid", "conceptUuid">>
DATATYPE_COLUMN_NAMES == <<"Datatype", "datatype">>
O3_UUID_COLUMN_NAMES == <<"EMR_Concept_UUID", "uuid", "conceptUuid", "UUID">>
O3_DATATYPE_COLUMN_NAMES == <<"Datatype", "datatype", "DataType">>

HeaderMatches(header, names) ==
  LET LAMBDA_inc(name) == Includes(header, name)
  IN SomeName(names, LAMBDA_inc)

\* the forEach scan of identifySpecialColumns: every hit overwrites the index
RECURSIVE ScanColumns(_, _, _, _)
ScanColumns(hdrs, names, index, found) ==
  IF index >= Len(hdrs) THEN found
  ELSE ScanColumns(hdrs, names, index + 1,
                   IF HeaderMatches(hdrs[index + 1], names) THEN index ELSE found)

\* the scan started from column 0 instead of null
identifySpecialColumns_DefaultFirst(hdrs) ==
  [uuidColumnIndex     |-> ScanColumns(hdrs, UUID_COLUMN_NAMES, 0, 0),
   datatypeColumnIndex |-> ScanColumns(hdrs, DATATYPE_COLUMN_NAMES, 0, NoColumn)]

identifySpecialColumns(hdrs) ==
  [uuidColumnIndex     |-> ScanColumns(hdrs, UUID_COLUMN_NAMES, 0, NoColumn),
   datatypeColumnIndex |-> ScanColumns(hdrs, DATATYPE_COLUMN_NAMES, 0, NoColumn)]

HeaderMatchesIgnoreCase(header, names) ==
  LET lowerHeader == ToLowerCase(header)
      LAMBDA_inc(name) == Includes(lowerHeader, ToLowerCase(name))
  IN SomeName(names, LAMBDA_inc)

\* headers.findIndex(...) : the first hit, compared in lower case
findColumnIndex(hdrs, possibleNames) ==
  IF \E i \in 0..(Len(hdrs) - 1) : HeaderMatchesIgnoreCase(hdrs[i + 1], possibleNames)
  THEN CHOOSE i \in 0..(Len(hdrs) - 1) :
         /\ HeaderMatchesIgnoreCase(hdrs[i + 1], possibleNames)
         /\ \A j \in 0..(i - 1) : ~HeaderMatchesIgnoreCase(hdrs[j + 1], possibleNames)
  ELSE NoColumn

(***************************************************************************)
(* Source adapters (registry mode)                                         *)
(*                                                                         *)
(* A response is what the proxied fetch of one adapter produces:           *)
(*   [kind |-> "neterr"]   fetch rejects                                   *)
(*   [kind |-> "notok"]    response.ok is false                            *)
(*   [kind |-> "badjson"]  response.json() rejects                         *)
(*   [kind |-> "ok", body |-> b]  a parsed JSON body b, where b is         *)
(*       [t |-> "null"], [t |-> "obj", ...fields] or                       *)
(*       [t |-> "arr", items |-> <<bodies>>]                               *)
(* The opaque `details` field of an answer is not modelled.                *)
(***************************************************************************)
Adapters == {"oclSource", "oclCollection", "openmrsDev", "openmrsUat"}
AdapterOrder == <<"oclSource", "oclCollection", "openmrsDev", "openmrsUat">>

\* a || b
JsOr(a, b) == IF Truthy(a) THEN a ELSE b

\* property read on a JSON object: undefined when the property is absent
Prop(obj, f) == IF f \in DOMAIN obj THEN obj[f] ELSE Undefined

\* the call without its response.ok test: an error page is parsed as the concept
makeProxiedApiCall_NoOkTest(resp) ==
  IF resp.kind = "ok" THEN [threw |-> FALSE, data |-> resp.body]
  ELSE IF resp.kind = "notok" THEN [threw |-> FALSE, data |-> [t |-> "obj"]]
  ELSE [threw |-> TRUE]

\* makeProxiedApiCall: throws unless the fetch succeeds, is OK and parses
makeProxiedApiCall(resp) ==
  IF resp.kind = "ok" THEN [threw |-> FALSE, data |-> resp.body] ELSE [threw |-> TRUE]

NotFoundAnswer == [exists |-> FALSE]

verifyUUIDInOCLSource(resp) ==
  LET call == makeProxiedApiCall(resp) IN
  IF call.threw THEN NotFoundAnswer
  ELSE IF call.data.t = "null" THEN NotFoundAnswer  \* TypeError, caught by the inner catch
  ELSE [exists |-> TRUE,
        datatype |-> JsOr(JsOr(Prop(call.data, "datatype"), Prop(call.data, "concept_class")), Null)]

verifyUUIDInOCLCollection(resp) ==
  LET call == makeProxiedApiCall(resp) IN
  IF call.threw THEN NotFoundAnswer
  ELSE IF call.data.t = "arr" /\ Len(call.data.items) > 0
       THEN IF call.data.items[1].t = "null" THEN NotFoundAnswer
            ELSE [exists |-> TRUE,
                  datatype |-> JsOr(JsOr(Prop(call.data.items[1], "datatype"),
                                         Prop(call.data.items[1], "concept_class")), Null)]
       ELSE NotFoundAnswer

verifyUUIDInOpenMRS(resp) ==
  LET call == makeProxiedApiCall(resp) IN
  IF call.threw THEN NotFoundAnswer
  ELSE IF call.data.t = "null" THEN NotFoundAnswer
  ELSE [exists |-> TRUE, datatype |-> JsOr(Prop(call.data, "datatypeDisplay"), Null)]

verifyUUIDInOpenMRSDev(resp) == verifyUUIDInOpenMRS(resp)

verifyUUIDInOpenMRSUat(resp) == verifyUUIDInOpenMRS(resp)

\* what adapter a resolves with when its fetch produces resp
AdapterAnswer(a, resp) ==
  CASE a = "oclSource"     -> verifyUUIDInOCLSource(resp)
    [] a = "oclCollection" -> verifyUUIDInOCLCollection(resp)
    [] a = "openmrsDev"    -> verifyUUIDInOpenMRSDev(resp)
    [] a = "openmrsUat"    -> verifyUUIDInOpenMRSUat(resp)

(***************************************************************************)
(* Reconciliation engine (registry mode)                                   *)
(***************************************************************************)
mapExcelDatatypeToOpenMRS(excelDatatype) ==
  LET mapping == [k \in {"Text", "Numeric", "Coded", "Boolean", "Date", "Datetime"} |-> k]
  IN IF excelDatatype \in DOMAIN mapping THEN mapping[excelDatatype] ELSE excelDatatype

\* [x.exists ? x.datatype : null, ...].filter(Boolean)
FoundDatatypes(answers) ==
  LET raw == [i \in 1..Len(AdapterOrder) |->
                IF answers[AdapterOrder[i]].exists THEN answers[AdapterOrder[i]].datatype ELSE Null]
  IN SelectSeq(raw, Truthy)

\* the comparison without toLowerCase()
DatatypeMatch_CaseSensitive(expectedDatatype, answers) ==
  IF Truthy(expectedDatatype)
  THEN \E k \in 1..Len(FoundDatatypes(answers)) : FoundDatatypes(answers)[k] = expectedDatatype
  ELSE TRUE

DatatypeMatch(expectedDatatype, answers) ==
  IF Truthy(expectedDatatype)
  THEN \E k \in 1..Len(FoundDatatypes(answers)) :
         ToLowerCase(FoundDatatypes(answers)[k]) = ToLowerCase(expectedDatatype)
  ELSE TRUE

\* sources built without the exists test: every answer is kept
SourcesOf_KeepAll(answers) ==
  [a \in Adapters |-> answers[a]]

\* sources: { a: answer.exists ? answer : undefined }; an undefined entry is
\* modelled as the key being absent from the function
SourcesOf(answers) ==
  [a \in {b \in Adapters : answers[b].exists} |-> answers[a]]

\* verifyUUID after Promise.all has resolved with `answers`
verifyUUID(uuid, expectedDatatype, answers) ==
  IF ~isUUID(uuid)
  THEN [uuid |-> uuid, isValid |-> FALSE, sources |-> <<>>,
        expectedDatatype |-> expectedDatatype, datatypeMatch |-> FALSE]
  ELSE [uuid |-> uuid,
        isValid |-> \E a \in Adapters : answers[a].exists,
        sources |-> SourcesOf(answers),
        expectedDatatype |-> expectedDatatype,
        datatypeMatch |-> DatatypeMatch(expectedDatatype, answers)]

\* one "- <label>: Found / Not Found" block of createTooltipContent
SourceLine(result, a, label) ==
  IF a \in DOMAIN result.sources
  THEN "- " \o label \o ": Found\n" \o
       (IF Truthy(Prop(result.sources[a], "datatype"))
        THEN "  Datatype: " \o result.sources[a].datatype \o "\n" ELSE "")
  ELSE "- " \o label \o ": Not Found\n"

\* one "- O3forms ...: Found / Not Found / Not Checked" block
FormSourceLine(result, a, label) ==
  IF a \in DOMAIN result.sources
  THEN "- " \o label \o ": " \o (IF result.sources[a].exists THEN "Found" ELSE "Not Found") \o "\n" \o
       (IF Truthy(Prop(result.sources[a], "datatype"))
        THEN "  Datatype: " \o result.sources[a].datatype \o "\n" ELSE "")
  ELSE "- " \o label \o ": Not Checked\n"

createTooltipContent(result) ==
  "UUID: " \o result.uuid \o "\n" \o
  "Valid: " \o (IF result.isValid THEN "Yes" ELSE "No") \o "\n" \o
  (IF Truthy(result.expectedDatatype)
   THEN "Expected Datatype: " \o result.expectedDatatype \o "\n" \o
        "Datatype Match: " \o (IF result.datatypeMatch THEN "Yes" ELSE "No") \o "\n"
   ELSE "") \o
  "\nVerification Sources:\n" \o
  SourceLine(result, "oclSource", "OCL Source") \o
  SourceLine(result, "oclCollection", "OCL Collection") \o
  SourceLine(result, "openmrsDev", "OpenMRS DEV") \o
  SourceLine(result, "openmrsUat", "OpenMRS UAT") \o
  FormSourceLine(result, "o3formsDev", "O3forms DEV") \o
  FormSourceLine(result, "o3formsUat", "O3forms UAT")

NotFoundTooltip(uuidValue) ==
  "UUID: " \o uuidValue \o
  "\nStatus: Not Found Indicator\n\nThis cell contains a value that indicates the UUID is not found or not yet assigned."

(***************************************************************************)
(* O3-form mode: the form index                                            *)
(*                                                                         *)
(* A form document is [t |-> "null"] or a record with t = "obj" and any of *)
(* uuid, encounterTypeUuid (formData.encounterType.uuid) and pages; a page *)
(* has sections, a section has questions, a question has concept,          *)
(* rendering and answers (under questionOptions), an answer has concept.   *)
(***************************************************************************)
Digits == "0123456789"

RECURSIVE NumStr(_)
NumStr(n) == IF n < 10 THEN Char(Digits, n + 1) ELSE NumStr(n \div 10) \o Char(Digits, (n % 10) + 1)

mapO3RenderingToDatatype(rendering) ==
  LET r == ToLowerCase(rendering) IN
  CASE r = "number" -> "Numeric"
    [] r \in {"text", "textarea"} -> "Text"
    [] r \in {"select", "radio", "checkbox"} -> "Coded"
    [] r = "date" -> "Date"
    [] r = "datetime" -> "Datetime"
    [] r = "toggle" -> "Boolean"
    [] OTHER -> Undefined

\* the entries set by the answers.forEach of one question, from index k on
RECURSIVE AnswerEntries(_, _, _)
AnswerEntries(answers, questionPath, k) ==
  IF k >= Len(answers) THEN <<>>
  ELSE (IF Truthy(Prop(answers[k + 1], "concept"))
        THEN <<[key |-> answers[k + 1].concept,
                val |-> [path |-> questionPath \o ".questionOptions.answers[" \o NumStr(k) \o "].concept",
                         datatype |-> "Coded"]]>>
        ELSE <<>>)
       \o AnswerEntries(answers, questionPath, k + 1)

OneQuestionEntries(question, questionPath) ==
  (IF Truthy(Prop(question, "concept"))
   THEN <<[key |-> question.concept,
           val |-> [path |-> questionPath \o ".questionOptions.concept",
                    datatype |-> IF Truthy(Prop(question, "rendering"))
                                 THEN mapO3RenderingToDatatype(question.rendering)
                                 ELSE Undefined]]>>
   ELSE <<>>)
  \o (IF "answers" \in DOMAIN question THEN AnswerEntries(question.answers, questionPath, 0) ELSE <<>>)

RECURSIVE QuestionEntries(_, _, _)
QuestionEntries(questions, sectionPath, k) ==
  IF k >= Len(questions) THEN <<>>
  ELSE OneQuestionEntries(questions[k + 1], sectionPath \o ".questions[" \o NumStr(k) \o "]")
       \o QuestionEntries(questions, sectionPath, k + 1)

RECURSIVE SectionEntries(_, _, _)
SectionEntries(sections, pagePath, k) ==
  IF k >= Len(sections) THEN <<>>
  ELSE (IF "questions" \in DOMAIN sections[k + 1]
        THEN QuestionEntries(sections[k + 1].questions, pagePath \o ".sections[" \o NumStr(k) \o "]", 0)
        ELSE <<>>)
       \o SectionEntries(sections, pagePath, k + 1)

RECURSIVE PageEntries(_, _)
PageEntries(pages, k) ==
  IF k >= Len(pages) THEN <<>>
  ELSE (IF "sections" \in DOMAIN pages[k + 1]
        THEN SectionEntries(pages[k + 1].sections, "form.pages[" \o NumStr(k) \o "]", 0)
        ELSE <<>>)
       \o PageEntries(pages, k + 1)

\* extractUUIDsFromO3Form throws a TypeError: a page of the document is null
\* and page.sections is read from it
ExtractThrows(formData) ==
  /\ "pages" \in DOMAIN formData
  /\ \E k \in 1..Len(formData.pages) : formData.pages[k] = [t |-> "null"]

\* every uuids.set(key, val) of extractUUIDsFromO3Form, in execution order
FormEntries(formData) ==
  (IF Truthy(Prop(formData, "uuid"))
   THEN <<[key |-> formData.uuid, val |-> [path |-> "form.uuid", datatype |-> Undefined]]>> ELSE <<>>)
  \o (IF Truthy(Prop(formData, "encounterTypeUuid"))
      THEN <<[key |-> formData.encounterTypeUuid,
              val |-> [path |-> "form.encounterType.uuid", datatype |-> Undefined]]>> ELSE <<>>)
  \o (IF "pages" \in DOMAIN formData THEN PageEntries(formData.pages, 0) ELSE <<>>)

\* the Map built by extractUUIDsFromO3Form: a later set of a key overwrites
extractUUIDsFromO3Form(formData) ==
  LET entries == FormEntries(formData)
      keys == {entries[i].key : i \in 1..Len(entries)}
      last(k) == CHOOSE i \in 1..Len(entries) :
                   /\ entries[i].key = k
                   /\ \A j \in (i + 1)..Len(entries) : entries[j].key # k
  IN [k \in keys |-> entries[last(k)].val]

getMockO3FormResponse ==
  [t |-> "obj",
   uuid |-> "9287bc3e-5852-3034-a59b-889d06d546ad",
   encounterTypeUuid |-> "95d68645-1b72-4290-be0b-ec1fb64bc067",
   pages |-> <<
     [sections |-> <<
       [questions |-> <<
         [rendering |-> "radio",
          concept |-> "4dae5b12-070f-4153-b1ca-fbec906106e1",
          answers |-> << [concept |-> "9f2fe30f-a8f0-49ba-82e4-71c232259130"],
                         [concept |-> "e4e42ecd-196b-4aa8-a265-bfbed09d77cf"] >>],
         [rendering |-> "radio",
          concept |-> "a5d0a2a3-e31f-4c9b-a2e0-5db9a4c8b057",
          answers |-> << [concept |-> "9e4b6acc-ab97-4ecd-a48c-b3b8af6a2aee"],
                         [concept |-> "5f46b821-6a80-4e1d-8c8c-3d79f64d5d15"] >>]
       >>]
     >>]
   >>]

\* fetchO3Form: the parsed document, or the mock document when the fetch
\* fails, is not OK, does not parse, or parses to null (data.name then throws
\* inside the try block)
fetchO3Form(resp) ==
  IF resp.kind = "ok" /\ resp.body.t # "null" THEN resp.body ELSE getMockO3FormResponse

FormEnvs == {"dev", "uat"}

(***************************************************************************)
(* O3-form mode: one row's verdict                                         *)
(***************************************************************************)
FormSource(index, uuidValue) ==
  [exists |-> uuidValue \in DOMAIN index,
   datatype |-> IF uuidValue \in DOMAIN index THEN index[uuidValue].datatype ELSE Undefined]

\* the result with && in place of || in foundInForm
O3FormResult_FoundInBoth(uuidValue, expectedDatatype, formUuidsDevMap, formUuidsUatMap) ==
  LET foundInDevForm == uuidValue \in DOMAIN formUuidsDevMap
      foundInUatForm == uuidValue \in DOMAIN formUuidsUatMap
      foundInForm == foundInDevForm /\ foundInUatForm
      useUat == foundInUatForm /\ Truthy(formUuidsUatMap[uuidValue].datatype) /\ Truthy(expectedDatatype)
      useDev == ~useUat /\ foundInDevForm /\ Truthy(formUuidsDevMap[uuidValue].datatype)
                /\ Truthy(expectedDatatype)
      actualDatatype == IF useUat THEN formUuidsUatMap[uuidValue].datatype
                        ELSE IF useDev THEN formUuidsDevMap[uuidValue].datatype
                        ELSE Undefined
      datatypeMatch == (useUat \/ useDev)
                       /\ ToLowerCase(actualDatatype) = ToLowerCase(expectedDatatype)
  IN [uuid |-> uuidValue,
      isValid |-> foundInForm,
      foundInForm |-> foundInForm,
      expectedDatatype |-> expectedDatatype,
      actualDatatype |-> actualDatatype,
      datatypeMatch |-> datatypeMatch \/ ~Truthy(expectedDatatype) \/ ~Truthy(actualDatatype),
      path |-> IF foundInForm
               THEN (IF foundInUatForm THEN formUuidsUatMap[uuidValue].path
                     ELSE formUuidsDevMap[uuidValue].path)
               ELSE Undefined,
      sources |-> [a \in {"o3formsDev", "o3formsUat"} |->
                     IF a = "o3formsDev" THEN FormSource(formUuidsDevMap, uuidValue)
                     ELSE FormSource(formUuidsUatMap, uuidValue)]]

\* the verificationResult built for a row that is not a not-found indicator
O3FormResult(uuidValue, expectedDatatype, formUuidsDevMap, formUuidsUatMap) ==
  LET foundInDevForm == uuidValue \in DOMAIN formUuidsDevMap
      foundInUatForm == uuidValue \in DOMAIN formUuidsUatMap
      foundInForm == foundInDevForm \/ foundInUatForm
      useUat == foundInUatForm /\ Truthy(formUuidsUatMap[uuidValue].datatype) /\ Truthy(expectedDatatype)
      useDev == ~useUat /\ foundInDevForm /\ Truthy(formUuidsDevMap[uuidValue].datatype)
                /\ Truthy(expectedDatatype)
      actualDatatype == IF useUat THEN formUuidsUatMap[uuidValue].datatype
                        ELSE IF useDev THEN formUuidsDevMap[uuidValue].datatype
                        ELSE Undefined
      datatypeMatch == (useUat \/ useDev)
                       /\ ToLowerCase(actualDatatype) = ToLowerCase(expectedDatatype)
  IN [uuid |-> uuidValue,
      isValid |-> foundInForm,
      foundInForm |-> foundInForm,
      expectedDatatype |-> expectedDatatype,
      actualDatatype |-> actualDatatype,
      datatypeMatch |-> datatypeMatch \/ ~Truthy(expectedDatatype) \/ ~Truthy(actualDatatype),
      path |-> IF foundInForm
               THEN (IF foundInUatForm THEN formUuidsUatMap[uuidValue].path
                     ELSE formUuidsDevMap[uuidValue].path)
               ELSE Undefined,
      sources |-> [a \in {"o3formsDev", "o3formsUat"} |->
                     IF a = "o3formsDev" THEN FormSource(formUuidsDevMap, uuidValue)
                     ELSE FormSource(formUuidsUatMap, uuidValue)]]

\* one "- <label>: Found / Not Found" block of createO3FormTooltipContent
O3SourceLine(result, a, label) ==
  IF a \in DOMAIN result.sources /\ result.sources[a].exists
  THEN "- " \o label \o ": Found\n" \o
       (IF Truthy(Prop(result.sources[a], "datatype"))
        THEN "  Datatype: " \o result.sources[a].datatype \o "\n" ELSE "")
  ELSE "- " \o label \o ": Not Found\n"

createO3FormTooltipContent(result) ==
  "UUID: " \o result.uuid \o "\n" \o
  "Found in Form: " \o (IF result.foundInForm THEN "Yes" ELSE "No") \o "\n\n" \o
  "\nVerification Sources:\n" \o
  O3SourceLine(result, "oclSource", "OCL Source") \o
  O3SourceLine(result, "oclCollection", "OCL Collection") \o
  O3SourceLine(result, "openmrsDev", "OpenMRS DEV") \o
  O3SourceLine(result, "openmrsUat", "OpenMRS UAT") \o
  O3SourceLine(result, "o3formsDev", "O3forms DEV") \o
  O3SourceLine(result, "o3formsUat", "O3forms UAT") \o
  (IF result.foundInForm /\ Truthy(result.path) THEN "\nPath: " \o result.path \o "\n" ELSE "") \o
  (IF Truthy(result.expectedDatatype)
   THEN "\nDatatype:\n" \o "Expected: " \o result.expectedDatatype \o "\n" \o
        (IF Truthy(result.actualDatatype)
         THEN "Actual: " \o result.actualDatatype \o "\n" \o
              "Match: " \o (IF result.datatypeMatch THEN "Yes" ELSE "No") \o "\n"
         ELSE "Actual: Unknown\n")
   ELSE "")

\* createTooltipContent of the 10-row demo revision: the four registries only
createTooltipContentDemo(result) ==
  "UUID: " \o result.uuid \o "\n" \o
  "Valid: " \o (IF result.isValid THEN "Yes" ELSE "No") \o "\n" \o
  (IF Truthy(result.expectedDatatype)
   THEN "Expected Datatype: " \o result.expectedDatatype \o "\n" \o
        "Datatype Match: " \o (IF result.datatypeMatch THEN "Yes" ELSE "No") \o "\n"
   ELSE "") \o
  "\nVerification Sources:\n" \o
  SourceLine(result, "oclSource", "OCL Source") \o
  SourceLine(result, "oclCollection", "OCL Collection") \o
  SourceLine(result, "openmrsDev", "OpenMRS DEV") \o
  SourceLine(result, "openmrsUat", "OpenMRS UAT")

(***************************************************************************)
(* Sheet verifier: state                                                   *)
(***************************************************************************)
VARIABLES
  mode,                \* "registry" (verifySheetData with progress callback),
                       \* "registryDemo" (verifySheetData limited to 10 rows),
                       \* "form" (verifySheetAgainstO3Form)
  headers,             \* the headers argument
  data,                \* the data argument: a sequence of rows
  hasCallback,         \* whether progressCallback was passed
  world,               \* what each registry's fetch produces during this run
  formWorld,           \* what each environment's form fetch produces
  pc,                  \* "start", "fetching", "loop", "awaiting", "returned", "rejected"
  uuidColumnIndex,
  datatypeColumnIndex,
  rowIndex,
  verificationData,    \* cell key "row:col" -> cell verification data
  calls,               \* the four lookups of the verifyUUID in flight
  forms,               \* the two form fetches of Promise.all
  formUuidsDev,
  formUuidsUat,
  events,              \* the calls made so far: progress callback, lookups, fetches
  sheetData,           \* the viewer's state: sheet name -> rows, header row first
  sheetNames,          \* the viewer's state: the sheet names in workbook order
  sheetVerifications,  \* the viewer's state: sheet name -> that sheet's verification map
  activeSheet,         \* the viewer's state: the displayed sheet
  sheetName,           \* props.sheetName as the running verifyData captured it
  summary,             \* what the summary component computed at the last render
  isVerifying,         \* the viewer's state: the verifying flag
  localVerificationData \* the grid's state: the map of its last successful run

vars == <<mode, headers, data, hasCallback, world, formWorld, pc, uuidColumnIndex,
          datatypeColumnIndex, rowIndex, verificationData, calls, forms,
          formUuidsDev, formUuidsUat, events,
          sheetData, sheetNames, sheetVerifications, activeSheet, sheetName, summary,
          isVerifying, localVerificationData>>

\* the viewer's part of the state, which the verifiers never touch
viewer == <<sheetData, sheetNames, sheetVerifications, activeSheet, sheetName, summary,
            isVerifying, localVerificationData>>

inputs == <<mode, headers, data, hasCallback, world, formWorld>>

\* `${rowIndex}:${colIndex}`
CellKey(r, c) == NumStr(r) \o ":" \o NumStr(c)

\* verificationData[key] = cell
Put(map, key, cell) == [k \in DOMAIN map \cup {key} |-> IF k = key THEN cell ELSE map[k]]

EmptyMap == <<>>

\* Math.min(data.length, 10) of the demo revision
DemoRowLimit == 10

Min(a, b) == IF a < b THEN a ELSE b

rowsToProcess ==
  IF mode = "registryDemo" THEN Min(Len(data), DemoRowLimit) ELSE Len(data)

CurrentRow == data[rowIndex + 1]

\* row[c]: undefined beyond the end of the row
CellAt(row, c) == IF c >= 0 /\ c < Len(row) THEN row[c + 1] ELSE Undefined

\* the bounds test with < in place of <=
IsShortRow_Strict(row) == Len(row) < uuidColumnIndex

\* row.length <= uuidColumnIndex
IsShortRow(row) == Len(row) <= uuidColumnIndex

\* String(row[uuidColumnIndex])
UuidValueOf(row) == JsString(CellAt(row, uuidColumnIndex))

\* the local `datatype` of verifySheetData
DatatypeOf(row) ==
  IF datatypeColumnIndex # NoColumn /\ Len(row) > datatypeColumnIndex
  THEN LET d == JsString(CellAt(row, datatypeColumnIndex))
       IN IF Truthy(d) THEN mapExcelDatatypeToOpenMRS(d) ELSE d
  ELSE Undefined

\* the local `expectedDatatype` of verifySheetAgainstO3Form
ExpectedDatatypeOf(row) ==
  IF datatypeColumnIndex # NoColumn /\ Len(row) > datatypeColumnIndex
  THEN LET d == JsString(CellAt(row, datatypeColumnIndex))
       IN IF Truthy(d) THEN Trim(d) ELSE d
  ELSE Undefined

IdleCalls == [a \in Adapters |-> [st |-> "idle"]]
IdleForms == [e \in FormEnvs |-> [st |-> "idle"]]

ProgressEvent == [e |-> "progress", row |-> rowIndex, who |-> "callback"]
LookupEvent(a) == [e |-> "lookup", row |-> rowIndex, who |-> a]
FetchEvent(env) == [e |-> "fetch", row |-> -1, who |-> env]

\* the callback invoked a second time for the same row
WithProgress_Twice == IF hasCallback THEN events \o <<ProgressEvent, ProgressEvent>> ELSE events

\* if (progressCallback) progressCallback(rowIndex)
WithProgress == IF hasCallback THEN events \o <<ProgressEvent>> ELSE events

(***************************************************************************)
(* Sheet verifier: the cells it stores                                     *)
(***************************************************************************)
\* { ...verificationResult, isDatatype: true }
WithIsDatatype(result) ==
  [f \in DOMAIN result \cup {"isDatatype"} |-> IF f = "isDatatype" THEN TRUE ELSE result[f]]

\* the validity test with || in place of && : found in any system
FoundInAllSystems_AnyFound(result) ==
  \E a \in Adapters : a \in DOMAIN result.sources /\ result.sources[a].exists

\* verificationResult.sources.x?.exists && ... for the four registries
FoundInAllSystems(result) ==
  \A a \in Adapters : a \in DOMAIN result.sources /\ result.sources[a].exists

\* the identifier cell with its explanation appended to a text buffer that
\* outlives the row: the explanation of the previous row comes first
UuidCell_SharedTooltipBuffer(r, uuidValue, result) ==
  [rowIndex |-> r, colIndex |-> uuidColumnIndex, value |-> uuidValue,
   isVerified |-> TRUE,
   isValid |-> FoundInAllSystems(result),
   hasDiscrepancy |-> result.isValid /\ ~FoundInAllSystems(result),
   verificationDetails |-> result,
   tooltipContent |->
     (IF r > 0 /\ CellKey(r - 1, uuidColumnIndex) \in DOMAIN verificationData
      THEN verificationData[CellKey(r - 1, uuidColumnIndex)].tooltipContent ELSE "")
     \o createTooltipContent(result)]

\* the identifier cell stored by verifySheetData after verifyUUID resolved
UuidCell(r, uuidValue, result) ==
  [rowIndex |-> r, colIndex |-> uuidColumnIndex, value |-> uuidValue,
   isVerified |-> TRUE,
   isValid |-> FoundInAllSystems(result),
   hasDiscrepancy |-> result.isValid /\ ~FoundInAllSystems(result),
   verificationDetails |-> result,
   tooltipContent |-> createTooltipContent(result)]

\* the identifier cell stored by the demo revision
UuidCellDemo(r, uuidValue, result) ==
  [rowIndex |-> r, colIndex |-> uuidColumnIndex, value |-> uuidValue,
   isVerified |-> TRUE,
   isValid |-> result.isValid,
   verificationDetails |-> result,
   tooltipContent |-> createTooltipContentDemo(result)]

\* the datatype cell given the validity of the identifier
DatatypeCell_IdentifierValidity(r, datatype, result) ==
  [rowIndex |-> r, colIndex |-> datatypeColumnIndex, value |-> datatype,
   isVerified |-> TRUE,
   isValid |-> result.isValid,
   verificationDetails |-> WithIsDatatype(result),
   tooltipContent |-> createTooltipContent(result)]

\* the datatype cell stored by verifySheetData
DatatypeCell(r, datatype, result) ==
  [rowIndex |-> r, colIndex |-> datatypeColumnIndex, value |-> datatype,
   isVerified |-> TRUE,
   isValid |-> result.datatypeMatch,
   verificationDetails |-> WithIsDatatype(result),
   tooltipContent |-> createTooltipContent(result)]

DatatypeCellDemo(r, datatype, result) ==
  [rowIndex |-> r, colIndex |-> datatypeColumnIndex, value |-> datatype,
   isVerified |-> TRUE,
   isValid |-> result.datatypeMatch,
   verificationDetails |-> result,
   tooltipContent |-> createTooltipContentDemo(result)]

\* notFoundResult of verifySheetData
\* the result of a not-found indicator with no entry for any registry
NotFoundResult_NoEntries(uuidValue, datatype) ==
  [uuid |-> uuidValue, isValid |-> FALSE, datatypeMatch |-> FALSE,
   expectedDatatype |-> datatype,
   sources |-> <<>>,
   notFoundIndicator |-> TRUE]

NotFoundResult(uuidValue, datatype) ==
  [uuid |-> uuidValue, isValid |-> FALSE, datatypeMatch |-> FALSE,
   expectedDatatype |-> datatype,
   sources |-> [a \in Adapters |-> [exists |-> FALSE]],
   notFoundIndicator |-> TRUE]

\* notFoundResult of verifySheetAgainstO3Form
O3NotFoundResult(uuidValue, expectedDatatype) ==
  [uuid |-> uuidValue, isValid |-> FALSE, foundInForm |-> FALSE, datatypeMatch |-> FALSE,
   expectedDatatype |-> expectedDatatype,
   sources |-> [a \in {"o3formsDev", "o3formsUat"} |-> [exists |-> FALSE]]]

NotFoundCell(r, uuidValue, details) ==
  [rowIndex |-> r, colIndex |-> uuidColumnIndex, value |-> uuidValue,
   isVerified |-> TRUE, isValid |-> FALSE,
   verificationDetails |-> details,
   tooltipContent |-> NotFoundTooltip(uuidValue),
   isNotFoundIndicator |-> TRUE]

O3UuidCell(r, uuidValue, result) ==
  [rowIndex |-> r, colIndex |-> uuidColumnIndex, value |-> uuidValue,
   isVerified |-> TRUE, isValid |-> result.isValid,
   verificationDetails |-> result,
   tooltipContent |-> createO3FormTooltipContent(result)]

O3DatatypeCell(r, expectedDatatype, result) ==
  [rowIndex |-> r, colIndex |-> datatypeColumnIndex, value |-> expectedDatatype,
   isVerified |-> TRUE, isValid |-> result.datatypeMatch,
   verificationDetails |-> WithIsDatatype(result),
   tooltipContent |-> createO3FormTooltipContent(result)]

\* the map after the identifier cell and, when a datatype column and value
\* exist, the datatype cell of row r have been stored, in that order
StoreRow(map, r, uuidCell, hasDatatypeCell, datatypeCell) ==
  LET m1 == Put(map, CellKey(r, uuidColumnIndex), uuidCell)
  IN IF hasDatatypeCell THEN Put(m1, CellKey(r, datatypeColumnIndex), datatypeCell) ELSE m1

(***************************************************************************)
(* Sheet verifier: actions                                                 *)
(***************************************************************************)
\* the column indexes the running verifier computes from the headers
LocatedColumns ==
  IF mode = "form"
  THEN [uuidColumnIndex |-> findColumnIndex(headers, O3_UUID_COLUMN_NAMES),
        datatypeColumnIndex |-> findColumnIndex(headers, O3_DATATYPE_COLUMN_NAMES)]
  ELSE identifySpecialColumns(headers)

\* no identifier column: return the empty map
ReturnNoColumn ==
  /\ pc = "start"
  /\ LET cols == LocatedColumns IN
     /\ cols.uuidColumnIndex = NoColumn
     /\ uuidColumnIndex' = cols.uuidColumnIndex
     /\ datatypeColumnIndex' = cols.datatypeColumnIndex
  /\ pc' = "returned"
  /\ UNCHANGED <<viewer, inputs, rowIndex, verificationData, calls, forms, formUuidsDev, formUuidsUat, events>>

\* verifySheetData: identifier column found, enter the row loop
BeginRows ==
  /\ pc = "start"
  /\ mode \in {"registry", "registryDemo"}
  /\ LET cols == LocatedColumns IN
     /\ cols.uuidColumnIndex # NoColumn
     /\ uuidColumnIndex' = cols.uuidColumnIndex
     /\ datatypeColumnIndex' = cols.datatypeColumnIndex
  /\ rowIndex' = 0
  /\ pc' = "loop"
  /\ UNCHANGED <<viewer, inputs, verificationData, calls, forms, formUuidsDev, formUuidsUat, events>>

\* verifySheetAgainstO3Form: identifier column found, start both form fetches
BeginFetch ==
  /\ pc = "start"
  /\ mode = "form"
  /\ LET cols == LocatedColumns IN
     /\ cols.uuidColumnIndex # NoColumn
     /\ uuidColumnIndex' = cols.uuidColumnIndex
     /\ datatypeColumnIndex' = cols.datatypeColumnIndex
  /\ forms' = [e \in FormEnvs |-> [st |-> "pending"]]
  /\ events' = events \o <<FetchEvent("dev"), FetchEvent("uat")>>
  /\ pc' = "fetching"
  /\ UNCHANGED <<viewer, inputs, rowIndex, verificationData, calls, formUuidsDev, formUuidsUat>>

\* one fetchO3Form settles (it never rejects)
FetchSettle(env) ==
  /\ pc = "fetching"
  /\ forms[env].st = "pending"
  /\ forms' = [forms EXCEPT ![env] = [st |-> "settled", doc |-> fetchO3Form(formWorld[env])]]
  /\ UNCHANGED <<viewer, inputs, pc, uuidColumnIndex, datatypeColumnIndex, rowIndex, verificationData,
                 calls, formUuidsDev, formUuidsUat, events>>

FormsSettled == \A e \in FormEnvs : forms[e].st = "settled"

\* Promise.all resolved: build both indexes and enter the row loop
FormsReady ==
  /\ pc = "fetching"
  /\ FormsSettled
  /\ \A e \in FormEnvs : ~ExtractThrows(forms[e].doc)
  /\ formUuidsDev' = extractUUIDsFromO3Form(forms["dev"].doc)
  /\ formUuidsUat' = extractUUIDsFromO3Form(forms["uat"].doc)
  /\ forms' = IdleForms
  /\ rowIndex' = 0
  /\ pc' = "loop"
  /\ UNCHANGED <<viewer, inputs, uuidColumnIndex, datatypeColumnIndex, verificationData, calls, events>>

\* a fetched document makes extractUUIDsFromO3Form throw, outside any try
\* block: the run rejects
FormsThrow ==
  /\ pc = "fetching"
  /\ FormsSettled
  /\ \E e \in FormEnvs : ExtractThrows(forms[e].doc)
  /\ forms' = IdleForms
  /\ pc' = "rejected"
  /\ UNCHANGED <<viewer, inputs, uuidColumnIndex, datatypeColumnIndex, rowIndex, verificationData, calls,
                 formUuidsDev, formUuidsUat, events>>

AtRow == pc = "loop" /\ rowIndex < rowsToProcess

\* the row loop moves on without storing anything
SkipRow ==
  /\ rowIndex' = rowIndex + 1
  /\ events' = WithProgress
  /\ UNCHANGED <<viewer, inputs, pc, uuidColumnIndex, datatypeColumnIndex, verificationData, calls, forms,
                 formUuidsDev, formUuidsUat>>

\* row.length <= uuidColumnIndex
RowSkipShort ==
  /\ AtRow
  /\ IsShortRow(CurrentRow)
  /\ SkipRow

\* form mode: !uuidValue.trim()
RowSkipEmpty ==
  /\ AtRow
  /\ mode = "form"
  /\ ~IsShortRow(CurrentRow)
  /\ Trim(UuidValueOf(CurrentRow)) = ""
  /\ SkipRow

\* registry mode and form mode: the identifier cell is a not-found indicator
RowNotFoundIndicator ==
  /\ AtRow
  /\ mode \in {"registry", "form"}
  /\ ~IsShortRow(CurrentRow)
  /\ IsNotFoundIndicator(UuidValueOf(CurrentRow))
  /\ verificationData' =
       Put(verificationData, CellKey(rowIndex, uuidColumnIndex),
           NotFoundCell(rowIndex, UuidValueOf(CurrentRow),
                        IF mode = "form"
                        THEN O3NotFoundResult(UuidValueOf(CurrentRow), ExpectedDatatypeOf(CurrentRow))
                        ELSE NotFoundResult(UuidValueOf(CurrentRow), DatatypeOf(CurrentRow))))
  /\ rowIndex' = rowIndex + 1
  /\ events' = WithProgress
  /\ UNCHANGED <<viewer, inputs, pc, uuidColumnIndex, datatypeColumnIndex, calls, forms,
                 formUuidsDev, formUuidsUat>>

\* the not-found-indicator check the running revision applies before isUUID
IndicatorHandled(uuidValue) == mode = "registry" /\ IsNotFoundIndicator(uuidValue)

\* registry modes: !isUUID(uuidValue)
RowSkipNotUuid ==
  /\ AtRow
  /\ mode \in {"registry", "registryDemo"}
  /\ ~IsShortRow(CurrentRow)
  /\ ~IndicatorHandled(UuidValueOf(CurrentRow))
  /\ ~isUUID(UuidValueOf(CurrentRow))
  /\ SkipRow

\* verifyUUID called without await: the lookups are started and the loop goes on
RowStartVerify_NoAwait ==
  /\ AtRow
  /\ mode \in {"registry", "registryDemo"}
  /\ ~IsShortRow(CurrentRow)
  /\ ~IndicatorHandled(UuidValueOf(CurrentRow))
  /\ isUUID(UuidValueOf(CurrentRow))
  /\ calls' = [a \in Adapters |-> [st |-> "pending"]]
  /\ events' = WithProgress \o [i \in 1..Len(AdapterOrder) |-> LookupEvent(AdapterOrder[i])]
  /\ rowIndex' = rowIndex + 1
  /\ UNCHANGED <<viewer, inputs, pc, uuidColumnIndex, datatypeColumnIndex, verificationData,
                 forms, formUuidsDev, formUuidsUat>>

\* registry modes: await verifyUUID(uuidValue, datatype) starts the four lookups
RowStartVerify ==
  /\ AtRow
  /\ mode \in {"registry", "registryDemo"}
  /\ ~IsShortRow(CurrentRow)
  /\ ~IndicatorHandled(UuidValueOf(CurrentRow))
  /\ isUUID(UuidValueOf(CurrentRow))
  /\ calls' = [a \in Adapters |-> [st |-> "pending"]]
  /\ events' = WithProgress \o [i \in 1..Len(AdapterOrder) |-> LookupEvent(AdapterOrder[i])]
  /\ pc' = "awaiting"
  /\ UNCHANGED <<viewer, inputs, uuidColumnIndex, datatypeColumnIndex, rowIndex, verificationData, forms,
                 formUuidsDev, formUuidsUat>>

\* one adapter's lookup settles; adapters never reject
AdapterSettle(a) ==
  /\ pc = "awaiting"
  /\ calls[a].st = "pending"
  /\ calls' = [calls EXCEPT ![a] = [st |-> "settled", answer |-> AdapterAnswer(a, world[a])]]
  /\ UNCHANGED <<viewer, inputs, pc, uuidColumnIndex, datatypeColumnIndex, rowIndex, verificationData,
                 forms, formUuidsDev, formUuidsUat, events>>

\* the join gives way as soon as one lookup has found the identifier
AllSettled_FirstFound ==
  \/ \E a \in Adapters : calls[a].st = "settled" /\ calls[a].answer.exists
  \/ \A a \in Adapters : calls[a].st = "settled"

AllSettled == \A a \in Adapters : calls[a].st = "settled"

\* the array Promise.all resolves with: one answer per lookup, by position in
\* the call list and not by order of settlement; a lookup that has not
\* answered has contributed no finding
ResolvedAnswers ==
  [a \in Adapters |-> IF calls[a].st = "settled" THEN calls[a].answer ELSE NotFoundAnswer]

\* Promise.all resolved: verifyUUID returns and the row's cells are stored
RowStoreVerified ==
  /\ pc = "awaiting"
  /\ AllSettled
  /\ LET uuidValue == UuidValueOf(CurrentRow)
         datatype == DatatypeOf(CurrentRow)
         result == verifyUUID(uuidValue, datatype, ResolvedAnswers)
         hasDatatypeCell == datatypeColumnIndex # NoColumn /\ Truthy(datatype)
     IN verificationData' =
          IF mode = "registryDemo"
          THEN StoreRow(verificationData, rowIndex, UuidCellDemo(rowIndex, uuidValue, result),
                        hasDatatypeCell, DatatypeCellDemo(rowIndex, datatype, result))
          ELSE StoreRow(verificationData, rowIndex, UuidCell(rowIndex, uuidValue, result),
                        hasDatatypeCell, DatatypeCell(rowIndex, datatype, result))
  /\ calls' = IdleCalls
  /\ rowIndex' = rowIndex + 1
  /\ pc' = "loop"
  /\ UNCHANGED <<viewer, inputs, uuidColumnIndex, datatypeColumnIndex, forms, formUuidsDev, formUuidsUat,
                 events>>

\* form mode with the two documents fetched again for the row that is looked up
RowFormVerify_FetchPerRow ==
  /\ AtRow
  /\ mode = "form"
  /\ ~IsShortRow(CurrentRow)
  /\ Trim(UuidValueOf(CurrentRow)) # ""
  /\ ~IsNotFoundIndicator(UuidValueOf(CurrentRow))
  /\ LET uuidValue == UuidValueOf(CurrentRow)
         expectedDatatype == ExpectedDatatypeOf(CurrentRow)
         result == O3FormResult(uuidValue, expectedDatatype, formUuidsDev, formUuidsUat)
     IN verificationData' =
          StoreRow(verificationData, rowIndex, O3UuidCell(rowIndex, uuidValue, result),
                   datatypeColumnIndex # NoColumn /\ Truthy(expectedDatatype),
                   O3DatatypeCell(rowIndex, expectedDatatype, result))
  /\ events' = WithProgress \o <<FetchEvent("dev"), FetchEvent("uat")>>
                             \o <<[e |-> "get", row |-> rowIndex, who |-> "o3formsDev"],
                                 [e |-> "get", row |-> rowIndex, who |-> "o3formsUat"]>>
  /\ rowIndex' = rowIndex + 1
  /\ UNCHANGED <<viewer, inputs, pc, uuidColumnIndex, datatypeColumnIndex, calls, forms,
                 formUuidsDev, formUuidsUat>>

\* form mode: look the identifier up in both indexes and store the row's cells
RowFormVerify ==
  /\ AtRow
  /\ mode = "form"
  /\ ~IsShortRow(CurrentRow)
  /\ Trim(UuidValueOf(CurrentRow)) # ""
  /\ ~IsNotFoundIndicator(UuidValueOf(CurrentRow))
  /\ LET uuidValue == UuidValueOf(CurrentRow)
         expectedDatatype == ExpectedDatatypeOf(CurrentRow)
         result == O3FormResult(uuidValue, expectedDatatype, formUuidsDev, formUuidsUat)
     IN verificationData' =
          StoreRow(verificationData, rowIndex, O3UuidCell(rowIndex, uuidValue, result),
                   datatypeColumnIndex # NoColumn /\ Truthy(expectedDatatype),
                   O3DatatypeCell(rowIndex, expectedDatatype, result))
  /\ events' = WithProgress \o <<[e |-> "get", row |-> rowIndex, who |-> "o3formsDev"],
                                 [e |-> "get", row |-> rowIndex, who |-> "o3formsUat"]>>
  /\ rowIndex' = rowIndex + 1
  /\ UNCHANGED <<viewer, inputs, pc, uuidColumnIndex, datatypeColumnIndex, calls, forms,
                 formUuidsDev, formUuidsUat>>

\* the loop ends: return verificationData
FinishRows ==
  /\ pc = "loop"
  /\ rowIndex >= rowsToProcess
  /\ pc' = "returned"
  /\ UNCHANGED <<viewer, inputs, uuidColumnIndex, datatypeColumnIndex, rowIndex, verificationData, calls,
                 forms, formUuidsDev, formUuidsUat, events>>

(***************************************************************************)
(* The summary component: calculateStats and calculateAllSheetsStats       *)
(***************************************************************************)
\* JavaScript undefined where a verification map is expected
NoMap == [undefined |-> TRUE]

\* JavaScript null where statistics are expected
NoStats == [null |-> TRUE]

\* obj.f in a condition, f being a boolean or absent
Flag(obj, f) == f \in DOMAIN obj /\ obj[f]

\* the four registries the summary has statistics of
StatAdapters == {"oclSource", "oclCollection", "openmrsDev", "openmrsUat"}

\* Math.round((found / total) * 100), for total > 0
RoundPercent(found, total) == (200 * found + total) \div (2 * total)

ZeroEnvironmentStats == [total |-> 0, found |-> 0, notFound |-> 0, percentage |-> 0]

\* the statistics calculateStats returns for no data
ZeroStats ==
  [uuidTotal |-> 0, uuidFoundInAll |-> 0, uuidFoundInAny |-> 0, uuidNotFoundInAny |-> 0,
   uuidNotFoundIndicators |-> 0, uuidDiscrepancies |-> 0,
   datatypeTotal |-> 0, datatypeMatched |-> 0, datatypeMismatched |-> 0,
   total |-> 0, foundInAny |-> 0,
   oclSource |-> ZeroEnvironmentStats, oclCollection |-> ZeroEnvironmentStats,
   openmrsDev |-> ZeroEnvironmentStats, openmrsUat |-> ZeroEnvironmentStats]

\* the keys of uuidCells: cells with details, an identifier, and no isDatatype mark
UuidCellKeys(map) ==
  {k \in DOMAIN map :
     /\ "verificationDetails" \in DOMAIN map[k]
     /\ Truthy(Prop(map[k].verificationDetails, "uuid"))
     /\ ~Flag(map[k].verificationDetails, "isDatatype")}

\* the keys of datatypeCells
DatatypeCellKeys(map) ==
  {k \in DOMAIN map :
     /\ "verificationDetails" \in DOMAIN map[k]
     /\ Flag(map[k].verificationDetails, "isDatatype")}

\* cell.isNotFoundIndicator || details.notFoundIndicator
IsIndicatorCell(cell) ==
  Flag(cell, "isNotFoundIndicator") \/ Flag(cell.verificationDetails, "notFoundIndicator")

\* details.sources.X && details.sources.X.exists
ExistsIn(cell, a) ==
  /\ a \in DOMAIN cell.verificationDetails.sources
  /\ cell.verificationDetails.sources[a].exists

\* one registry's statistics, the not-found indicators left out of the total
EnvironmentStats_IndicatorsLeftOut(map, a) ==
  LET uuidKeys == {k \in UuidCellKeys(map) : ~IsIndicatorCell(map[k])}
      foundKeys == {k \in uuidKeys : ExistsIn(map[k], a)}
      total == Cardinality(uuidKeys)
      found == Cardinality(foundKeys)
  IN [total |-> total, found |-> found, notFound |-> total - found,
      percentage |-> IF total > 0 THEN RoundPercent(found, total) ELSE 0]

\* one registry's statistics over the identifier cells
EnvironmentStats(map, a) ==
  LET uuidKeys == UuidCellKeys(map)
      foundKeys == {k \in uuidKeys : ~IsIndicatorCell(map[k]) /\ ExistsIn(map[k], a)}
      total == Cardinality(uuidKeys)
      found == Cardinality(foundKeys)
  IN [total |-> total, found |-> found, notFound |-> total - found,
      percentage |-> IF total > 0 THEN RoundPercent(found, total) ELSE 0]

\* the branch "if (details.isValid)" of an identifier cell that is no indicator
CountsAsFoundInAll(cell) == cell.verificationDetails.isValid

\* the discrepancy branch as an "if" of its own, taken after the validity branch
CountsAsDiscrepancy_NoElse(cell) == Flag(cell, "hasDiscrepancy")

\* the branch "else if (cell.hasDiscrepancy)"
CountsAsDiscrepancy(cell) == ~CountsAsFoundInAll(cell) /\ Flag(cell, "hasDiscrepancy")

\* the statistics of a non-empty map
StatsOf(map) ==
  LET uuidKeys == UuidCellKeys(map)
      datatypeKeys == DatatypeCellKeys(map)
      indicators == {k \in uuidKeys : IsIndicatorCell(map[k])}
      looked == uuidKeys \ indicators
      foundInAll == {k \in looked : CountsAsFoundInAll(map[k])}
      discrepancies == {k \in looked : CountsAsDiscrepancy(map[k])}
      notFound == looked \ (foundInAll \cup discrepancies)
      matched == {k \in datatypeKeys : map[k].isValid}
      uuidFoundInAny == Cardinality(foundInAll) + Cardinality(discrepancies)
  IN [uuidTotal |-> Cardinality(uuidKeys),
      uuidFoundInAll |-> Cardinality(foundInAll),
      uuidFoundInAny |-> uuidFoundInAny,
      uuidNotFoundInAny |-> Cardinality(indicators) + Cardinality(notFound),
      uuidNotFoundIndicators |-> Cardinality(indicators),
      uuidDiscrepancies |-> Cardinality(discrepancies),
      datatypeTotal |-> Cardinality(datatypeKeys),
      datatypeMatched |-> Cardinality(matched),
      datatypeMismatched |-> Cardinality(datatypeKeys) - Cardinality(matched),
      total |-> Cardinality(uuidKeys) + Cardinality(datatypeKeys),
      foundInAny |-> uuidFoundInAny,
      oclSource |-> EnvironmentStats(map, "oclSource"),
      oclCollection |-> EnvironmentStats(map, "oclCollection"),
      openmrsDev |-> EnvironmentStats(map, "openmrsDev"),
      openmrsUat |-> EnvironmentStats(map, "openmrsUat")]

\* data || verificationData: an object, even an empty one, is truthy
DataToUse(dataArg, displayed) == IF dataArg # NoMap THEN dataArg ELSE displayed

\* calculateStats(data), displayed being the component's verificationData prop
calculateStats(dataArg, displayed) ==
  LET verificationDataToUse == DataToUse(dataArg, displayed)
  IN IF verificationDataToUse = NoMap \/ DOMAIN verificationDataToUse = {}
     THEN ZeroStats
     ELSE StatsOf(verificationDataToUse)

\* the count fields calculateAllSheetsStats accumulates
CountFields ==
  {"uuidTotal", "uuidFoundInAll", "uuidFoundInAny", "uuidNotFoundInAny",
   "uuidNotFoundIndicators", "uuidDiscrepancies",
   "datatypeTotal", "datatypeMatched", "datatypeMismatched"}

\* allStats before the first sheet
ZeroAllStats ==
  [f \in CountFields \cup {"total", "foundInAny"} |-> 0] @@ [sheetStats |-> <<>>]

\* one sheet's entry of sheetStats
SheetStatsOf(sheetStats) ==
  [f \in CountFields |-> sheetStats[f]] @@
  [percentage |-> IF sheetStats.uuidTotal > 0
                  THEN RoundPercent(sheetStats.uuidFoundInAll, sheetStats.uuidTotal) ELSE 0]

\* one round of the forEach over Object.entries(allSheetsData)
AccumulateSheet(allStats, name, sheetStats) ==
  [f \in DOMAIN allStats |->
     IF f \in CountFields THEN allStats[f] + sheetStats[f]
     ELSE IF f = "sheetStats" THEN Put(allStats.sheetStats, name, SheetStatsOf(sheetStats))
     ELSE allStats[f]]

RECURSIVE AccumulateSheets(_, _, _, _)
\* the forEach over the entries not yet visited
AccumulateSheets(allStats, names, allSheetsData, displayed) ==
  IF names = {} THEN allStats
  ELSE LET name == CHOOSE n \in names : TRUE
       IN AccumulateSheets(
            AccumulateSheet(allStats, name, calculateStats(allSheetsData[name], displayed)),
            names \ {name}, allSheetsData, displayed)

\* the counts taken from the sheets' maps merged into one map by coordinate key
calculateAllSheetsStats_MergedMap(allSheetsData, displayed) ==
  IF allSheetsData = NoMap THEN NoStats
  ELSE LET names == DOMAIN allSheetsData
           merged == [k \in UNION {DOMAIN allSheetsData[n] : n \in names} |->
                        allSheetsData[CHOOSE n \in names : k \in DOMAIN allSheetsData[n]][k]]
           mergedStats == calculateStats(merged, displayed)
       IN [f \in CountFields \cup {"total", "foundInAny"} |-> mergedStats[f]] @@
          [sheetStats |->
             [n \in names |-> SheetStatsOf(calculateStats(allSheetsData[n], displayed))]]

\* calculateAllSheetsStats(), allSheetsData and displayed being the component's props
calculateAllSheetsStats(allSheetsData, displayed) ==
  IF allSheetsData = NoMap THEN NoStats
  ELSE LET summed == AccumulateSheets(ZeroAllStats, DOMAIN allSheetsData, allSheetsData, displayed)
       IN [summed EXCEPT !.total = summed.uuidTotal + summed.datatypeTotal,
                         !.foundInAny = summed.uuidFoundInAny]

\* the percentage shown next to the all-sheets identifier count
AllSheetsPercentage(allStats) ==
  IF allStats.uuidTotal > 0 THEN RoundPercent(allStats.uuidFoundInAll, allStats.uuidTotal) ELSE 0

\* what the component computes when it renders
RenderSummary(displayed, allSheetsData) ==
  [stats |-> calculateStats(NoMap, displayed),
   allSheetsStats |-> calculateAllSheetsStats(allSheetsData, displayed)]

(***************************************************************************)
(* Inputs                                                                  *)
(***************************************************************************)
\* the longest sheet of which every combination of rows is explored
MaxRows == 2
\* the length of the long sheets (all rows alike), beyond the demo row limit
LongRows == 11

Modes == {"registry", "registryDemo", "form"}

ConceptInMock == "4dae5b12-070f-4153-b1ca-fbec906106e1"
ConceptUpper == "4DAE5B12-070F-4153-B1CA-FBEC906106E1"
ConceptElsewhere == "11111111-2222-4333-8444-555555555555"

Rows ==
  { <<>>,
    <<ConceptInMock, "Coded">>,
    <<ConceptElsewhere>>,
    <<ConceptUpper, "text">>,
    <<" n/a ", "Coded">>,
    <<"TBD">>,
    <<"not-a-uuid", "Text">>,
    <<"", "Coded">>,
    <<Undefined, "Coded">>,
    <<"Coded", ConceptElsewhere>>,
    <<ConceptInMock, " ">> }

HeaderRows ==
  { <<"uuid", "Datatype">>,
    <<"Name", "Label">>,
    <<"Label", "EMR_Concept_UUID">>,
    <<"Uuid", "DATATYPE">>,
    <<"uuid", "conceptUuid">>,
    <<"uuid_datatype">> }

\* the rows combined into sheets of several rows
CoreRows ==
  { <<>>,
    <<ConceptInMock, "Coded">>,
    <<" n/a ", "Coded">>,
    <<"not-a-uuid", "Text">>,
    <<"", "Coded">>,
    <<"Coded", ConceptElsewhere>> }

\* the rows whose identifier is looked up when the first header is the identifier column
AnswerRows ==
  { <<ConceptInMock, "Coded">>, <<ConceptElsewhere>>, <<ConceptUpper, "text">> }

ShortSheets == UNION {[1..n -> CoreRows] : n \in 0..MaxRows}
LongSheets == {[i \in 1..LongRows |-> r] : r \in CoreRows}
OneRowSheets == {<<r>> : r \in Rows}

NetErr == [kind |-> "neterr"]
NotOk == [kind |-> "notok"]
BadJson == [kind |-> "badjson"]
Ok(b) == [kind |-> "ok", body |-> b]
JsonNull == [t |-> "null"]
JsonArray(items) == [t |-> "arr", items |-> items]
OclConcept(dt) == [t |-> "obj", datatype |-> dt, concept_class |-> "Question"]
MrsConcept(dt) == [t |-> "obj", datatypeDisplay |-> dt]

SourceResponses ==
  {NetErr, NotOk, Ok(OclConcept("Coded")), Ok([t |-> "obj", concept_class |-> "Misc"])}
CollectionResponses ==
  {NetErr, Ok(JsonArray(<<>>)), Ok(JsonArray(<<OclConcept("Text")>>)), Ok(JsonArray(<<OclConcept("Coded")>>))}
DevResponses ==
  {BadJson, NotOk, Ok(MrsConcept("Coded")), Ok([t |-> "obj"])}
UatResponses ==
  {NetErr, Ok(JsonNull), Ok(MrsConcept("coded")), Ok(MrsConcept("Numeric"))}

World(s, c, d, u) ==
  [a \in Adapters |-> CASE a = "oclSource" -> s [] a = "oclCollection" -> c
                        [] a = "openmrsDev" -> d [] a = "openmrsUat" -> u]

AllWorlds ==
  {World(s, c, d, u) : s \in SourceResponses, c \in CollectionResponses,
                       d \in DevResponses, u \in UatResponses}

\* every registry has the concept
WorldAll == World(Ok(OclConcept("Coded")), Ok(JsonArray(<<OclConcept("Coded")>>)),
                  Ok(MrsConcept("Coded")), Ok(MrsConcept("coded")))
\* the scenario of the specification: missing from the collection only
WorldSome == World(Ok(OclConcept("Coded")), Ok(JsonArray(<<>>)),
                   Ok(MrsConcept("Coded")), Ok(MrsConcept("Numeric")))
\* every registry is unreachable or answers garbage
WorldDown == World(NetErr, NetErr, BadJson, Ok(JsonNull))

CoreWorlds == {WorldAll, WorldSome, WorldDown}

FormSmall ==
  [t |-> "obj",
   uuid |-> "aaaaaaaa-bbbb-4ccc-8ddd-eeeeeeeeeeee",
   pages |-> <<
     [sections |-> <<
       [questions |-> <<
         [concept |-> ConceptElsewhere, rendering |-> "number",
          answers |-> << [concept |-> ConceptInMock] >>],
         [concept |-> ConceptInMock, rendering |-> "Text"]
       >>]
     >>]
   >>]

FormEmpty == [t |-> "obj"]

\* a document whose only page is null
FormBroken == [t |-> "obj", pages |-> << [t |-> "null"] >>]

FormResponses == {NetErr, NotOk, Ok(FormSmall), Ok(FormEmpty), Ok(JsonNull), Ok(FormBroken)}

FormWorld(d, u) == [e \in FormEnvs |-> IF e = "dev" THEN d ELSE u]

AllFormWorlds == {FormWorld(d, u) : d \in FormResponses, u \in FormResponses}

CoreFormWorlds ==
  {FormWorld(Ok(FormSmall), Ok(FormEmpty)), FormWorld(NetErr, NotOk),
   FormWorld(Ok(FormEmpty), NetErr), FormWorld(Ok(JsonNull), Ok(FormSmall)),
   FormWorld(Ok(FormSmall), Ok(FormBroken))}

(***************************************************************************)
(* Specification                                                           *)
(***************************************************************************)
\* the state at the call of the verifier, before its first statement
InitRun ==
  /\ pc = "start"
  /\ uuidColumnIndex = NoColumn
  /\ datatypeColumnIndex = NoColumn
  /\ rowIndex = 0
  /\ verificationData = EmptyMap
  /\ calls = IdleCalls
  /\ forms = IdleForms
  /\ formUuidsDev = EmptyMap
  /\ formUuidsUat = EmptyMap
  /\ events = <<>>

\* the demo revision takes no progress callback
CallbackChoices(m) == IF m = "registryDemo" THEN {FALSE} ELSE BOOLEAN

\* sheets of several rows, against a few registries and form servers
InitSheets ==
  /\ mode \in Modes
  /\ headers \in HeaderRows
  /\ data \in ShortSheets \cup LongSheets \cup OneRowSheets
  /\ hasCallback \in CallbackChoices(mode)
  /\ world \in (IF mode = "form" THEN {WorldAll} ELSE CoreWorlds)
  /\ formWorld \in (IF mode = "form" THEN CoreFormWorlds ELSE {FormWorld(NetErr, NetErr)})

\* one-row sheets, against every combination of responses
InitAnswers ==
  /\ mode \in Modes
  /\ headers = <<"uuid", "Datatype">>
  /\ data \in {<<r>> : r \in AnswerRows}
  /\ hasCallback \in CallbackChoices(mode)
  /\ world \in (IF mode = "form" THEN {WorldAll} ELSE AllWorlds)
  /\ formWorld \in (IF mode = "form" THEN AllFormWorlds ELSE {FormWorld(NetErr, NetErr)})

\* the viewer before a workbook is loaded
InitViewer ==
  /\ sheetData = EmptyMap
  /\ sheetNames = <<>>
  /\ sheetVerifications = EmptyMap
  /\ activeSheet = ""
  /\ sheetName = ""
  /\ summary = RenderSummary(NoMap, NoMap)
  /\ isVerifying = FALSE
  /\ localVerificationData = EmptyMap

Init == (InitSheets \/ InitAnswers) /\ InitRun /\ InitViewer

Next ==
  \/ ReturnNoColumn
  \/ BeginRows
  \/ BeginFetch
  \/ \E env \in FormEnvs : FetchSettle(env)
  \/ FormsReady
  \/ FormsThrow
  \/ RowSkipShort
  \/ RowSkipEmpty
  \/ RowNotFoundIndicator
  \/ RowSkipNotUuid
  \/ RowStartVerify
  \/ \E a \in Adapters : AdapterSettle(a)
  \/ RowStoreVerified
  \/ RowFormVerify
  \/ FinishRows

Spec == Init /\ [][Next]_vars

(***************************************************************************)
(* The viewer: a workbook of several sheets, verified one sheet at a time  *)
(***************************************************************************)
\* a workbook of three sheets: registry identifiers, form identifiers, and a
\* sheet without identifier column
ConceptsWorkbook ==
  [names |-> <<"Concepts", "O3 Forms", "Notes">>,
   sheets |->
     [n \in {"Concepts", "O3 Forms", "Notes"} |->
        CASE n = "Concepts" ->
               << <<"uuid", "Datatype">>,
                  <<ConceptInMock, "Coded">>, <<" n/a ", "Coded">>, <<"not-a-uuid", "Text">>,
                  <<"TBD">>, <<>>, <<ConceptUpper, "text">> >>
          [] n = "O3 Forms" ->
               << <<"uuid", "Datatype">>,
                  <<ConceptInMock, "Coded">>, <<"TBD">>, <<"", "Coded">>,
                  <<ConceptElsewhere>>, <<>>, <<" n/a ", "Coded">>, <<ConceptInMock, " ">> >>
          [] n = "Notes" ->
               << <<"Name", "Label">>, <<"first visit", "Visit">> >>]]

\* a workbook with one identifier among three and among six cells, and a sheet
\* that has a header row and no data row
CodesWorkbook ==
  [names |-> <<"Codes", "Answers", "Blank">>,
   sheets |->
     [n \in {"Codes", "Answers", "Blank"} |->
        CASE n = "Codes" ->
               << <<"Label", "EMR_Concept_UUID">>,
                  <<"Weight", "TBD">>, <<"Height", ConceptElsewhere>>, <<"Pulse", "N/A">> >>
          [] n = "Answers" ->
               << <<"uuid">>,
                  <<"tbd">>, <<"TBD">>, <<ConceptInMock>>, <<"n/a">>, <<"N/A">>, <<"TBD">> >>
          [] n = "Blank" ->
               << <<"uuid", "Datatype">> >>]]

Workbooks == {ConceptsWorkbook, CodesWorkbook}

\* the names of the sheet tabs a workbook can show
TabNames == UNION {DOMAIN workbook.sheets : workbook \in Workbooks}

\* sheetData[activeSheet].slice(1)
DataOf(name) == Tail(sheetData[name])

\* headerRow.map(String)
HeadersOf(name) == [i \in 1..Len(sheetData[name][1]) |-> JsString(sheetData[name][1][i])]

\* sheetName.toLowerCase().includes('form') || ...includes('translation')
isO3FormSheet(name) ==
  Includes(ToLowerCase(name), "form") \/ Includes(ToLowerCase(name), "translation")

\* the registries and form servers a run of the viewer may meet
ViewerWorlds == {WorldAll, WorldSome, WorldDown}
ViewerFormWorlds ==
  {FormWorld(Ok(FormSmall), Ok(FormEmpty)), FormWorld(Ok(FormSmall), Ok(FormBroken)),
   FormWorld(NetErr, Ok(FormSmall))}

\* no call of a verifier is in progress
NoRun ==
  /\ pc = "idle"
  /\ mode = "registry"
  /\ headers = <<>>
  /\ data = <<>>
  /\ hasCallback = FALSE
  /\ world = WorldDown
  /\ formWorld = FormWorld(NetErr, NetErr)
  /\ uuidColumnIndex = NoColumn
  /\ datatypeColumnIndex = NoColumn
  /\ rowIndex = 0
  /\ verificationData = EmptyMap
  /\ calls = IdleCalls
  /\ forms = IdleForms
  /\ formUuidsDev = EmptyMap
  /\ formUuidsUat = EmptyMap
  /\ events = <<>>

\* the call of the verifier is over and its frame is gone
EndRun ==
  /\ pc' = "idle"
  /\ mode' = "registry"
  /\ headers' = <<>>
  /\ data' = <<>>
  /\ hasCallback' = FALSE
  /\ world' = WorldDown
  /\ formWorld' = FormWorld(NetErr, NetErr)
  /\ uuidColumnIndex' = NoColumn
  /\ datatypeColumnIndex' = NoColumn
  /\ rowIndex' = 0
  /\ verificationData' = EmptyMap
  /\ calls' = IdleCalls
  /\ forms' = IdleForms
  /\ formUuidsDev' = EmptyMap
  /\ formUuidsUat' = EmptyMap
  /\ events' = <<>>

\* sheetVerifications[activeSheet], undefined for a sheet never verified
DisplayedMap(maps, name) == IF name \in DOMAIN maps THEN maps[name] ELSE NoMap

\* the allSheetsData prop: left out, or every sheet's stored map
AllSheetsDataChoices(maps) == {NoMap, maps}

\* the summaries a render can compute from the viewer's state
Renderings(maps, name) ==
  {RenderSummary(DisplayedMap(maps, name), all) : all \in AllSheetsDataChoices(maps)}

\* parseExcel(data, false): the first sheet is displayed, nothing is verified
InitWorkbook ==
  /\ NoRun
  /\ \E workbook \in Workbooks :
       /\ sheetData = workbook.sheets
       /\ sheetNames = workbook.names
  /\ sheetVerifications = EmptyMap
  /\ activeSheet = sheetNames[1]
  /\ sheetName = ""
  /\ summary \in Renderings(EmptyMap, sheetNames[1])
  /\ isVerifying = FALSE
  /\ localVerificationData = EmptyMap

\* the variables of a verifier call and the sheet name verifyData captured
run == <<inputs, pc, uuidColumnIndex, datatypeColumnIndex, rowIndex, verificationData,
         calls, forms, formUuidsDev, formUuidsUat, events, sheetName>>

\* the grid's verification effect calling verifyData, which calls the verifier
\* of sheet `name`
verifyData(name) ==
  /\ mode' = IF isO3FormSheet(name) THEN "form" ELSE "registry"
  /\ headers' = HeadersOf(name)
  /\ data' = DataOf(name)
  /\ hasCallback' = TRUE
  /\ world' \in (IF isO3FormSheet(name) THEN {WorldAll} ELSE ViewerWorlds)
  /\ formWorld' \in (IF isO3FormSheet(name) THEN ViewerFormWorlds
                                            ELSE {FormWorld(NetErr, NetErr)})
  /\ sheetName' = name
  /\ pc' = "start"
  /\ uuidColumnIndex' = NoColumn
  /\ datatypeColumnIndex' = NoColumn
  /\ rowIndex' = 0
  /\ verificationData' = EmptyMap
  /\ calls' = IdleCalls
  /\ forms' = IdleForms
  /\ formUuidsDev' = EmptyMap
  /\ formUuidsUat' = EmptyMap
  /\ events' = <<>>

\* props.isVerifying && props.data && props.data.length > 0 && props.headers,
\* and verifyData's own test that no run of the grid is in progress
VerificationEffectRuns(flag, name) ==
  flag /\ Len(DataOf(name)) > 0 /\ pc = "idle"

\* the verify button (disabled while the flag is set): setIsVerifying(true),
\* upon which the grid's effect calls verifyData if the sheet has data rows
triggerVerification ==
  /\ activeSheet # ""
  /\ ~isVerifying
  /\ isVerifying' = TRUE
  /\ IF VerificationEffectRuns(TRUE, activeSheet)
     THEN verifyData(activeSheet)
     ELSE UNCHANGED run
  /\ UNCHANGED <<sheetData, sheetNames, sheetVerifications, activeSheet, summary,
                 localVerificationData>>

\* let verificationResults = {}, replaced by what the verifier returned
verificationResults == IF pc = "returned" THEN verificationData ELSE EmptyMap

\* handleVerificationComplete merging the run's map into the stored one
handleVerificationComplete_Merge ==
  /\ pc \in {"returned", "rejected"}
  /\ LET previous == IF sheetName \in DOMAIN sheetVerifications
                      THEN sheetVerifications[sheetName] ELSE EmptyMap
         merged == [k \in DOMAIN previous \cup DOMAIN verificationResults |->
                      IF k \in DOMAIN verificationResults
                      THEN verificationResults[k] ELSE previous[k]]
     IN sheetVerifications' = Put(sheetVerifications, sheetName, merged)
  /\ summary' \in Renderings(sheetVerifications', activeSheet)
  /\ localVerificationData' = (IF pc = "returned" THEN verificationData
                                                  ELSE localVerificationData)
  /\ isVerifying' = FALSE
  /\ sheetName' = ""
  /\ EndRun
  /\ UNCHANGED <<sheetData, sheetNames, activeSheet>>

\* verifyData's finally block calling handleVerificationComplete(sheetName,
\* verificationResults) of the viewer, which renders again
handleVerificationComplete ==
  /\ pc \in {"returned", "rejected"}
  /\ sheetVerifications' = Put(sheetVerifications, sheetName, verificationResults)
  /\ summary' \in Renderings(sheetVerifications', activeSheet)
  /\ localVerificationData' = (IF pc = "returned" THEN verificationData
                                                  ELSE localVerificationData)
  /\ isVerifying' = FALSE
  /\ sheetName' = ""
  /\ EndRun
  /\ UNCHANGED <<sheetData, sheetNames, activeSheet>>

\* a sheet tab is clicked: the grid's reset effect empties its local map, and
\* its verification effect runs again because props.data has changed
handleSheetChange(name) ==
  /\ name \in DOMAIN sheetData
  /\ name # activeSheet
  /\ activeSheet' = name
  /\ summary' \in Renderings(sheetVerifications, name)
  /\ localVerificationData' = EmptyMap
  /\ IF VerificationEffectRuns(isVerifying, name)
     THEN verifyData(name)
     ELSE UNCHANGED run
  /\ UNCHANGED <<sheetData, sheetNames, sheetVerifications, isVerifying>>

NextViewer ==
  \/ Next
  \/ triggerVerification
  \/ handleVerificationComplete
  \/ \E name \in TabNames : handleSheetChange(name)

SpecViewer == InitWorkbook /\ [][NextViewer]_vars

\* the viewer with its pending work carried out: a settled promise runs its
\* continuation and verifyData's finally block runs; the user's clicks are
\* under no obligation
SpecViewerLive == SpecViewer /\ WF_vars(Next) /\ WF_vars(handleVerificationComplete)

(***************************************************************************)
(* Vocabulary of the properties                                            *)
(***************************************************************************)
RowAt(r) == data[r + 1]

\* the rows whose processing is complete
DoneRows == 0..(rowIndex - 1)

AllRows == 0..(Len(data) - 1)

\* the coordinate of row r's identifier cell
IdKey(r) == CellKey(r, uuidColumnIndex)

HasVerdictAt(key) == key \in DOMAIN verificationData

\* a verdict of the identifier kind, as opposed to a datatype-cell verdict
IsIdentifierVerdict(cell) == "isDatatype" \notin DOMAIN cell.verificationDetails

\* row r has an identifier cell, and String() of it is v
IdentifierOf(r) == UuidValueOf(RowAt(r))
HasIdentifierCell(r) == Len(RowAt(r)) > uuidColumnIndex

\* adapter a reports exists = true for the identifiers of this run
Reports(a) == AdapterAnswer(a, world[a]).exists
FoundInAll == \A a \in Adapters : Reports(a)
FoundInSome == \E a \in Adapters : Reports(a)

\* the fetch of adapter a fails: network error, non-OK status, unparsable body
Fails(resp) == resp.kind \in {"neterr", "notok", "badjson"}

\* trimmed and compared ignoring case, v is one of the placeholder tokens
PlaceholderTokens == {"N/A", "NA", "TBD", "PENDING", "NOT FOUND", "NOTFOUND", "NOT_FOUND"}
IsPlaceholder(v) == ToUpperCase(Trim(v)) \in PlaceholderTokens

\* a source adapter was invoked for row r: a registry lookup or a form-index lookup
AdapterInvokedFor(r) ==
  \E i \in 1..Len(events) : events[i].row = r /\ events[i].e \in {"lookup", "get"}

(***************************************************************************)
(* C1: in registry mode, the identifier verdict of a well-formed           *)
(* identifier has isValid = true exactly when all four adapters report     *)
(* exists = true, and hasDiscrepancy = true exactly when at least one but  *)
(* not all of them do.                                                     *)
(***************************************************************************)
C1_RegistryValidityPolicy ==
  mode = "registry" =>
    \A r \in DoneRows :
      (HasIdentifierCell(r) /\ isUUID(IdentifierOf(r))) =>
        /\ HasVerdictAt(IdKey(r))
        /\ IsIdentifierVerdict(verificationData[IdKey(r)]) =>
             /\ verificationData[IdKey(r)].isValid = FoundInAll
             /\ verificationData[IdKey(r)].hasDiscrepancy = (FoundInSome /\ ~FoundInAll)

\* a well-formed identifier found by some but not all registries has been
\* given an identifier verdict with hasDiscrepancy and without isValid
C1_Witness ==
  /\ mode = "registry"
  /\ FoundInSome /\ ~FoundInAll
  /\ \E r \in DoneRows :
       /\ HasIdentifierCell(r) /\ isUUID(IdentifierOf(r))
       /\ HasVerdictAt(IdKey(r))
       /\ IsIdentifierVerdict(verificationData[IdKey(r)])
       /\ verificationData[IdKey(r)].hasDiscrepancy
       /\ ~verificationData[IdKey(r)].isValid

(***************************************************************************)
(* C2: in registry mode and in form mode, an identifier cell that is a     *)
(* placeholder token (trimmed, ignoring case) gets a verdict with          *)
(* isNotFoundIndicator = true and isValid = false, and no source adapter   *)
(* is invoked for its row; it is never skipped as malformed.               *)
(***************************************************************************)
C2_PlaceholderVerdict ==
  mode \in {"registry", "form"} =>
    \A r \in DoneRows :
      (HasIdentifierCell(r) /\ IsPlaceholder(IdentifierOf(r))) =>
        /\ HasVerdictAt(IdKey(r))
        /\ "isNotFoundIndicator" \in DOMAIN verificationData[IdKey(r)]
        /\ verificationData[IdKey(r)].isNotFoundIndicator = TRUE
        /\ verificationData[IdKey(r)].isValid = FALSE
        /\ ~AdapterInvokedFor(r)

\* a placeholder written in lower case with surrounding blanks has its verdict
C2_Witness ==
  /\ mode \in {"registry", "form"}
  /\ \E r \in DoneRows :
       /\ HasIdentifierCell(r)
       /\ IdentifierOf(r) = " n/a "
       /\ HasVerdictAt(IdKey(r))
       /\ verificationData[IdKey(r)].isNotFoundIndicator = TRUE

(***************************************************************************)
(* C3: an identifier cell that is neither a well-formed UUID nor a         *)
(* placeholder token gets no verdict at its coordinate, in registry mode   *)
(* and in form mode alike.                                                 *)
(***************************************************************************)
C3_NoVerdictForMalformed ==
  mode \in {"registry", "form"} =>
    \A r \in DoneRows :
      (HasIdentifierCell(r) /\ ~isUUID(IdentifierOf(r)) /\ ~IsPlaceholder(IdentifierOf(r)))
        => ~HasVerdictAt(IdKey(r))

(***************************************************************************)
(* C4: in registry mode, an adapter whose fetch fails (network error,      *)
(* non-OK status, unparsable body) answers exists = false; the answers of  *)
(* the other adapters reach the verdict unchanged; the run never rejects   *)
(* and, once returned, holds a verdict for every row with a well-formed    *)
(* identifier.                                                             *)
(***************************************************************************)
C4_AdapterFailureContained ==
  mode = "registry" =>
    /\ pc # "rejected"
    /\ \A a \in Adapters :
         (calls[a].st = "settled" /\ Fails(world[a])) => calls[a].answer.exists = FALSE
    /\ \A r \in DoneRows :
         (HasIdentifierCell(r) /\ isUUID(IdentifierOf(r))) =>
           /\ HasVerdictAt(IdKey(r))
           /\ IsIdentifierVerdict(verificationData[IdKey(r)]) =>
                \A a \in Adapters :
                  LET sources == verificationData[IdKey(r)].verificationDetails.sources
                  IN /\ Fails(world[a]) => (a \notin DOMAIN sources \/ ~sources[a].exists)
                     /\ ~Fails(world[a]) =>
                          IF a \in DOMAIN sources
                          THEN sources[a] = AdapterAnswer(a, world[a])
                          ELSE ~AdapterAnswer(a, world[a]).exists
    /\ (pc = "returned" /\ uuidColumnIndex # NoColumn) =>
         \A r \in AllRows :
           (HasIdentifierCell(r) /\ isUUID(IdentifierOf(r))) => HasVerdictAt(IdKey(r))

\* a run has returned although one registry failed, and the verdict of a
\* well-formed identifier still carries the answer of a registry that found it
C4_Witness ==
  /\ mode = "registry"
  /\ pc = "returned"
  /\ \E a \in Adapters : Fails(world[a])
  /\ \E r \in AllRows, b \in Adapters :
       /\ HasIdentifierCell(r) /\ isUUID(IdentifierOf(r))
       /\ ~Fails(world[b])
       /\ HasVerdictAt(IdKey(r))
       /\ IsIdentifierVerdict(verificationData[IdKey(r)])
       /\ b \in DOMAIN verificationData[IdKey(r)].verificationDetails.sources
       /\ verificationData[IdKey(r)].verificationDetails.sources[b].exists

(***************************************************************************)
(* C5 (as stated): after a well-formed identifier is verified in registry  *)
(* mode, the verdict's sources record holds an entry for each of the four  *)
(* adapters; an adapter that did not find the identifier, or failed,       *)
(* appears with exists = false and is never absent.                        *)
(***************************************************************************)
C5_SourcesHoldEveryAdapter ==
  mode = "registry" =>
    \A r \in DoneRows :
      (HasIdentifierCell(r) /\ isUUID(IdentifierOf(r)) /\ HasVerdictAt(IdKey(r))
         /\ IsIdentifierVerdict(verificationData[IdKey(r)])) =>
        \A a \in Adapters :
          /\ a \in DOMAIN verificationData[IdKey(r)].verificationDetails.sources
          /\ verificationData[IdKey(r)].verificationDetails.sources[a].exists = Reports(a)

(***************************************************************************)
(* C5 (amended): after a well-formed identifier is verified in registry    *)
(* mode, the verdict's sources record holds an entry, with exists = true,  *)
(* exactly for the adapters that found the identifier; an adapter that did *)
(* not find it, or failed, is left absent.                                 *)
(***************************************************************************)
C5_SourcesHoldFoundAdaptersOnly ==
  mode = "registry" =>
    \A r \in DoneRows :
      (HasIdentifierCell(r) /\ isUUID(IdentifierOf(r)) /\ HasVerdictAt(IdKey(r))
         /\ IsIdentifierVerdict(verificationData[IdKey(r)])) =>
        LET sources == verificationData[IdKey(r)].verificationDetails.sources IN
        /\ DOMAIN sources = {a \in Adapters : Reports(a)}
        /\ \A a \in DOMAIN sources : sources[a].exists = TRUE

\* a verified identifier that one registry found, one did not find and one
\* failed on: the verdict carries the first and neither of the others
C5_Witness ==
  /\ mode = "registry"
  /\ \E r \in DoneRows, found \in Adapters, missing \in Adapters, failed \in Adapters :
       /\ HasIdentifierCell(r) /\ isUUID(IdentifierOf(r)) /\ HasVerdictAt(IdKey(r))
       /\ IsIdentifierVerdict(verificationData[IdKey(r)])
       /\ Reports(found)
       /\ ~Fails(world[missing]) /\ ~Reports(missing)
       /\ Fails(world[failed])
       /\ found \in DOMAIN verificationData[IdKey(r)].verificationDetails.sources
       /\ missing \notin DOMAIN verificationData[IdKey(r)].verificationDetails.sources
       /\ failed \notin DOMAIN verificationData[IdKey(r)].verificationDetails.sources

(***************************************************************************)
(* C6: in form mode, when the fetch of an environment's form document      *)
(* fails (network error or non-OK status) the identifier index built for   *)
(* that environment is empty; when both fetches fail every well-formed     *)
(* identifier gets isValid = false; and the run does not reject.           *)
(***************************************************************************)
C6_FailedFetchEmptyIndex ==
  (mode = "form" /\ pc \in {"loop", "returned", "rejected"}) =>
    /\ (pc # "rejected" /\ Fails(formWorld["dev"])) => DOMAIN formUuidsDev = {}
    /\ (pc # "rejected" /\ Fails(formWorld["uat"])) => DOMAIN formUuidsUat = {}
    /\ (Fails(formWorld["dev"]) /\ Fails(formWorld["uat"])) =>
         /\ pc # "rejected"
         /\ \A r \in DoneRows :
              (HasIdentifierCell(r) /\ isUUID(IdentifierOf(r)) /\ HasVerdictAt(IdKey(r))
                 /\ IsIdentifierVerdict(verificationData[IdKey(r)]))
                => verificationData[IdKey(r)].isValid = FALSE

(***************************************************************************)
(* C7: when no header matches an identifier-column name, the verifier      *)
(* returns the empty map without an error, and no adapter is invoked, no   *)
(* form document fetched and the progress callback never called.           *)
(***************************************************************************)
C7_NoIdentifierColumn ==
  LET matches(h) == IF mode = "form" THEN HeaderMatchesIgnoreCase(h, O3_UUID_COLUMN_NAMES)
                    ELSE HeaderMatches(h, UUID_COLUMN_NAMES)
  IN (pc # "start" /\ \A i \in 1..Len(headers) : ~matches(headers[i])) =>
       /\ pc = "returned"
       /\ verificationData = EmptyMap
       /\ events = <<>>
       /\ calls = IdleCalls
       /\ forms = IdleForms

\* a sheet with rows but without an identifier header has been returned from
C7_Witness ==
  /\ pc = "returned"
  /\ Len(data) > 0
  /\ headers = <<"Name", "Label">>
  /\ hasCallback
  /\ verificationData = EmptyMap

(***************************************************************************)
(* C8: sheet verification visits every row 0..N-1 of the sheet in          *)
(* increasing order, whatever N is, so that in the returned map every row  *)
(* whose identifier cell is a well-formed identifier or a placeholder has  *)
(* a verdict at its identifier-cell coordinate.                            *)
(***************************************************************************)
C8_EveryRowVisited ==
  (pc = "returned" /\ uuidColumnIndex # NoColumn) =>
    /\ rowIndex = Len(data)
    /\ \A r \in AllRows :
         (HasIdentifierCell(r) /\ (isUUID(IdentifierOf(r)) \/ IsPlaceholder(IdentifierOf(r))))
           => HasVerdictAt(IdKey(r))

(***************************************************************************)
(* C9: a row too short to contain the identifier column (row length <=     *)
(* identifier column index) gets no verdict at any coordinate of that row, *)
(* is not an error, and leaves the verdicts of every other row as they     *)
(* were.                                                                   *)
(***************************************************************************)
C9_ShortRowFrame ==
  [][ /\ (AtRow /\ IsShortRow(CurrentRow)) =>
           /\ verificationData' = verificationData
           /\ pc' = "loop"
           /\ rowIndex' = rowIndex + 1
      /\ \A key \in DOMAIN verificationData' :
           Len(RowAt(verificationData'[key].rowIndex)) > uuidColumnIndex' ]_vars

\* a short row has been passed over while another row of the sheet has its verdict
C9_Witness ==
  \E r \in DoneRows, other \in DoneRows :
    /\ Len(RowAt(r)) <= uuidColumnIndex
    /\ r < other
    /\ HasVerdictAt(IdKey(other))
    /\ \A c \in 0..1 : ~HasVerdictAt(CellKey(r, c))

(***************************************************************************)
(* C10: during one sheet verification with a progress callback, the        *)
(* callback is invoked at most once per row with strictly increasing row   *)
(* indices, and the call for row i precedes every source lookup of row i.  *)
(***************************************************************************)
C10_ProgressOrder ==
  hasCallback =>
    /\ \A i, j \in 1..Len(events) :
         (i < j /\ events[i].e = "progress" /\ events[j].e = "progress")
           => events[i].row < events[j].row
    /\ \A j \in 1..Len(events) :
         events[j].e \in {"lookup", "get"} =>
           \E i \in 1..(j - 1) : events[i].e = "progress" /\ events[i].row = events[j].row

\* the callback has been called for two rows, and the second row's lookups
\* were started after its call
C10_Witness ==
  /\ hasCallback
  /\ \E i, j, k \in 1..Len(events) :
       /\ i < j /\ j < k
       /\ events[i].e = "progress" /\ events[i].row = 0
       /\ events[j].e = "progress" /\ events[j].row = 1
       /\ events[k].e \in {"lookup", "get"} /\ events[k].row = 1

(***************************************************************************)
(* Vocabulary of the datatype verdicts                                     *)
(***************************************************************************)
\* the coordinate of row r's datatype cell
DtKey(r) == CellKey(r, datatypeColumnIndex)

IsDatatypeVerdict(cell) == ~IsIdentifierVerdict(cell)

IsPlaceholderVerdict(cell) == "isNotFoundIndicator" \in DOMAIN cell

\* the datatype verdicts stored for row r
DatatypeVerdictsOf(r) ==
  {key \in DOMAIN verificationData :
     verificationData[key].rowIndex = r /\ IsDatatypeVerdict(verificationData[key])}

\* the sheet has a datatype column and row r holds a value in it: a non-empty
\* string for verifySheetData, a string with a non-blank character for
\* verifySheetAgainstO3Form
HasDatatypeValue(r) ==
  /\ datatypeColumnIndex # NoColumn
  /\ Len(RowAt(r)) > datatypeColumnIndex
  /\ LET d == JsString(CellAt(RowAt(r), datatypeColumnIndex))
     IN IF mode = "form" THEN Trim(d) # "" ELSE d # ""

\* the datatype verdict of row r is in place, with the validity of the row's
\* datatypeMatch
DatatypeVerdictInPlace(r) ==
  /\ HasVerdictAt(DtKey(r))
  /\ IsDatatypeVerdict(verificationData[DtKey(r)])
  /\ verificationData[DtKey(r)].isValid = verificationData[DtKey(r)].verificationDetails.datatypeMatch
  /\ (IdKey(r) # DtKey(r) /\ HasVerdictAt(IdKey(r))) =>
       verificationData[DtKey(r)].isValid = verificationData[IdKey(r)].verificationDetails.datatypeMatch

(***************************************************************************)
(* C11 (as stated): for every row for which an identifier verdict is       *)
(* stored (well-formed or placeholder identifier) and whose datatype       *)
(* column holds a non-empty value, a second verdict is stored at the       *)
(* datatype-cell coordinate with isValid equal to the row's datatypeMatch; *)
(* without a datatype column or value no datatype verdict is stored.       *)
(***************************************************************************)
C11_DatatypeVerdictForEveryVerdictRow ==
  mode \in {"registry", "form"} =>
    \A r \in DoneRows :
      /\ (HasVerdictAt(IdKey(r)) /\ HasDatatypeValue(r)) => DatatypeVerdictInPlace(r)
      /\ ~HasDatatypeValue(r) => DatatypeVerdictsOf(r) = {}

(***************************************************************************)
(* C11 (amended): for every row for which an identifier verdict other than *)
(* a placeholder verdict is stored and whose datatype column holds a value *)
(* (non-empty in registry mode, non-blank in form mode), a second verdict  *)
(* is stored at the datatype-cell coordinate with isValid equal to the     *)
(* row's datatypeMatch; a placeholder row, a row without a datatype value  *)
(* and a sheet without a datatype column get no datatype verdict.          *)
(***************************************************************************)
C11_DatatypeVerdictUnlessPlaceholder ==
  mode \in {"registry", "form"} =>
    \A r \in DoneRows :
      /\ (HasVerdictAt(IdKey(r)) /\ ~IsPlaceholderVerdict(verificationData[IdKey(r)])
            /\ HasDatatypeValue(r)) => DatatypeVerdictInPlace(r)
      /\ (HasVerdictAt(IdKey(r)) /\ IsPlaceholderVerdict(verificationData[IdKey(r)]))
           => DatatypeVerdictsOf(r) = {}
      /\ ~HasDatatypeValue(r) => DatatypeVerdictsOf(r) = {}

\* a registry-mode row whose identifier is not valid while its datatype
\* verdict is, next to a placeholder row with a datatype value and no
\* datatype verdict
C11_Witness ==
  /\ mode = "registry"
  /\ datatypeColumnIndex # NoColumn
  /\ \E r \in DoneRows, p \in DoneRows :
       /\ IdKey(r) # DtKey(r)
       /\ HasVerdictAt(IdKey(r)) /\ HasVerdictAt(DtKey(r))
       /\ ~verificationData[IdKey(r)].isValid
       /\ verificationData[DtKey(r)].isValid
       /\ HasVerdictAt(IdKey(p)) /\ IsPlaceholderVerdict(verificationData[IdKey(p)])
       /\ HasDatatypeValue(p)
       /\ ~HasVerdictAt(DtKey(p))

(***************************************************************************)
(* Vocabulary of the datatype reconciliation                               *)
(***************************************************************************)
\* the verification result behind the verdict at row r's identifier coordinate
DetailsOf(r) == verificationData[IdKey(r)].verificationDetails

\* row r has been verified against the sources: a verdict that is not a
\* placeholder verdict stands at its identifier coordinate
IsVerifiedRow(r) ==
  HasVerdictAt(IdKey(r)) /\ ~IsPlaceholderVerdict(verificationData[IdKey(r)])

\* the non-empty datatypes reported by the registries that found the identifier
RegistryDatatypes ==
  {AdapterAnswer(a, world[a]).datatype :
     a \in {b \in Adapters : Reports(b) /\ Truthy(AdapterAnswer(b, world[b]).datatype)}}

\* the non-empty datatype the index of one environment reports for identifier v
IndexDatatypes(index, v) ==
  IF v \in DOMAIN index /\ Truthy(index[v].datatype) THEN {index[v].datatype} ELSE {}

\* the non-empty datatypes reported for row r by the sources that found it
ReportedDatatypes(r) ==
  IF mode = "form"
  THEN IndexDatatypes(formUuidsDev, IdentifierOf(r)) \cup IndexDatatypes(formUuidsUat, IdentifierOf(r))
  ELSE RegistryDatatypes

\* form mode: the datatype of the uat index when it reports one, else of the dev index
PreferredDatatypes(r) ==
  IF IndexDatatypes(formUuidsUat, IdentifierOf(r)) # {}
  THEN IndexDatatypes(formUuidsUat, IdentifierOf(r))
  ELSE IndexDatatypes(formUuidsDev, IdentifierOf(r))

EqualsIgnoringCase(a, b) == ToLowerCase(a) = ToLowerCase(b)

(***************************************************************************)
(* C12 (as stated): when an expected datatype is supplied and at least one *)
(* source that found the identifier reports a datatype, datatypeMatch is   *)
(* true exactly when the expected datatype equals, ignoring case, at least *)
(* one of the reported datatypes; in registry mode over the four adapters, *)
(* in form mode over the dev and uat indexes.                              *)
(***************************************************************************)
C12_DatatypeMatchAnyReported ==
  mode \in {"registry", "form"} =>
    \A r \in DoneRows :
      (IsVerifiedRow(r) /\ Truthy(DetailsOf(r).expectedDatatype) /\ ReportedDatatypes(r) # {}) =>
        DetailsOf(r).datatypeMatch =
          (\E t \in ReportedDatatypes(r) : EqualsIgnoringCase(t, DetailsOf(r).expectedDatatype))

(***************************************************************************)
(* C12 (amended): with an expected datatype supplied and at least one      *)
(* reported datatype, datatypeMatch is true exactly when the expected      *)
(* datatype equals, ignoring case, at least one of the datatypes reported  *)
(* by the four adapters (registry mode), or the one datatype form mode     *)
(* takes: that of the uat index when it reports one, else that of the dev  *)
(* index.                                                                  *)
(***************************************************************************)
C12_DatatypeMatchPreferredReported ==
  mode \in {"registry", "form"} =>
    \A r \in DoneRows :
      (IsVerifiedRow(r) /\ Truthy(DetailsOf(r).expectedDatatype) /\ ReportedDatatypes(r) # {}) =>
        DetailsOf(r).datatypeMatch =
          (\E t \in (IF mode = "form" THEN PreferredDatatypes(r) ELSE ReportedDatatypes(r)) :
             EqualsIgnoringCase(t, DetailsOf(r).expectedDatatype))

\* form mode: the dev index reports the expected datatype, the uat index a
\* different one, and the verdict says the datatype does not match
C12_Witness ==
  /\ mode = "form"
  /\ \E r \in DoneRows :
       /\ IsVerifiedRow(r)
       /\ Truthy(DetailsOf(r).expectedDatatype)
       /\ \E t \in IndexDatatypes(formUuidsDev, IdentifierOf(r)) :
            EqualsIgnoringCase(t, DetailsOf(r).expectedDatatype)
       /\ \E t \in IndexDatatypes(formUuidsUat, IdentifierOf(r)) :
            ~EqualsIgnoringCase(t, DetailsOf(r).expectedDatatype)
       /\ DetailsOf(r).datatypeMatch = FALSE

(***************************************************************************)
(* C13: when no expected datatype is supplied, or no source that found the *)
(* identifier reports a datatype, datatypeMatch is true, in registry mode  *)
(* and in form mode.                                                       *)
(***************************************************************************)
C13_DatatypeMatchByConvention ==
  mode \in {"registry", "form"} =>
    \A r \in DoneRows :
      (IsVerifiedRow(r) /\ (~Truthy(DetailsOf(r).expectedDatatype) \/ ReportedDatatypes(r) = {}))
        => DetailsOf(r).datatypeMatch = TRUE

(***************************************************************************)
(* Vocabulary of the form documents                                        *)
(***************************************************************************)
\* the document verifySheetAgainstO3Form works with for one environment
DocumentOf(env) == fetchO3Form(formWorld[env])

\* the identifiers a document mentions: its own, its encounter type's, the
\* concepts of its questions and of their answers
Mentions(doc) ==
  LET Items(rec, f) == IF f \in DOMAIN rec THEN {rec[f][k] : k \in 1..Len(rec[f])} ELSE {}
      Named(rec, f) == IF Truthy(Prop(rec, f)) THEN {rec[f]} ELSE {}
      Questions == UNION {Items(sec, "questions") : sec \in UNION {Items(pg, "sections") : pg \in Items(doc, "pages")}}
  IN Named(doc, "uuid") \cup Named(doc, "encounterTypeUuid")
     \cup UNION {Named(q, "concept") : q \in Questions}
     \cup UNION {Named(ans, "concept") : ans \in UNION {Items(q, "answers") : q \in Questions}}

(***************************************************************************)
(* C14: in form mode the verdict of a well-formed identifier has isValid = *)
(* true exactly when the identifier is in the dev form index or in the uat *)
(* form index, and o3formsDev.exists and o3formsUat.exists of its sources  *)
(* equal presence in the respective index, an index holding the           *)
(* identifiers the environment's document mentions.                        *)
(***************************************************************************)
C14_FormValidityPolicy ==
  mode = "form" =>
    \A r \in DoneRows :
      (HasIdentifierCell(r) /\ isUUID(IdentifierOf(r))) =>
        /\ HasVerdictAt(IdKey(r))
        /\ DetailsOf(r).sources["o3formsDev"].exists = (IdentifierOf(r) \in DOMAIN formUuidsDev)
        /\ DetailsOf(r).sources["o3formsUat"].exists = (IdentifierOf(r) \in DOMAIN formUuidsUat)
        /\ DetailsOf(r).sources["o3formsDev"].exists = (IdentifierOf(r) \in Mentions(DocumentOf("dev")))
        /\ DetailsOf(r).sources["o3formsUat"].exists = (IdentifierOf(r) \in Mentions(DocumentOf("uat")))
        /\ IsIdentifierVerdict(verificationData[IdKey(r)]) =>
             verificationData[IdKey(r)].isValid =
               (IdentifierOf(r) \in DOMAIN formUuidsDev \/ IdentifierOf(r) \in DOMAIN formUuidsUat)

\* a well-formed identifier in the dev index only has a valid verdict
C14_Witness ==
  /\ mode = "form"
  /\ \E r \in DoneRows :
       /\ HasIdentifierCell(r) /\ isUUID(IdentifierOf(r))
       /\ HasVerdictAt(IdKey(r))
       /\ IsIdentifierVerdict(verificationData[IdKey(r)])
       /\ IdentifierOf(r) \in DOMAIN formUuidsDev
       /\ IdentifierOf(r) \notin DOMAIN formUuidsUat
       /\ verificationData[IdKey(r)].isValid = TRUE
       /\ ~DetailsOf(r).sources["o3formsUat"].exists

C20_FanOutFanIn ==
  [][LET Started(a) ==
           \E i \in 1..Len(events) :
             events[i] = [e |-> "lookup", row |-> rowIndex, who |-> a]
         Determined(r) ==
           LET details == verificationData[IdKey(r)].verificationDetails
           IN /\ DOMAIN details.sources = {a \in Adapters : Reports(a)}
              /\ \A a \in DOMAIN details.sources :
                   details.sources[a] = AdapterAnswer(a, world[a])
              /\ details.isValid = FoundInSome
         AllStartedNoneAnswered ==
           pc = "awaiting" =>
             /\ \A a \in Adapters : calls[a].st \in {"pending", "settled"} /\ Started(a)
             /\ ~HasVerdictAt(IdKey(rowIndex))
         AnswersDetermineVerdict ==
           mode \in {"registry", "registryDemo"} =>
             \A r \in DoneRows :
               (HasIdentifierCell(r) /\ HasVerdictAt(IdKey(r))
                  /\ IsIdentifierVerdict(verificationData[IdKey(r)])
                  /\ ~IsPlaceholderVerdict(verificationData[IdKey(r)]))
               => Determined(r)
     IN /\ AllStartedNoneAnswered'
        /\ (pc = "awaiting" /\ pc' # "awaiting") =>
             \A a \in Adapters : calls[a].st = "settled"
        /\ AnswersDetermineVerdict'
    ]_vars

\* one lookup has found the identifier, one has failed, one is still pending,
\* and the row has no verdict yet
C20_Witness ==
  /\ pc = "awaiting"
  /\ \E a, b, c \in Adapters :
       /\ calls[a].st = "settled" /\ calls[a].answer.exists
       /\ calls[b].st = "settled" /\ Fails(world[b])
       /\ calls[c].st = "pending"
  /\ ~HasVerdictAt(IdKey(rowIndex))

\* the stored map of the displayed sheet, where that sheet has been verified
\* by the registry verifier
DisplayedRegistryMap ==
  /\ activeSheet \in DOMAIN sheetVerifications
  /\ ~isO3FormSheet(activeSheet)

\* the identifier verdicts of a map that are no placeholder verdicts
LookedUpVerdicts(map) ==
  {k \in DOMAIN map : IsIdentifierVerdict(map[k]) /\ ~IsPlaceholderVerdict(map[k])}

(***************************************************************************)
(* C15: calculateStats counts each identifier verdict that is no           *)
(* placeholder in exactly one of found-in-all, discrepancy and not-found,  *)
(* according to the verdict: for the map of a registry verification,       *)
(* uuidFoundInAll is the number of verdicts with isValid = true (found in  *)
(* all four adapters), uuidDiscrepancies the number of verdicts with       *)
(* hasDiscrepancy = true, and uuidNotFoundInAny counts the remaining ones  *)
(* next to the placeholders.                                               *)
(***************************************************************************)
C15_StatsFollowVerdict ==
  DisplayedRegistryMap =>
    LET map == sheetVerifications[activeSheet]
        looked == LookedUpVerdicts(map)
        inAll == {k \in looked : map[k].isValid}
        inSome == {k \in looked : map[k].hasDiscrepancy}
    IN /\ summary.stats.uuidFoundInAll = Cardinality(inAll)
       /\ summary.stats.uuidDiscrepancies = Cardinality(inSome)
       /\ summary.stats.uuidNotFoundInAny - summary.stats.uuidNotFoundIndicators
            = Cardinality(looked \ (inAll \cup inSome))

\* the map the summary is computed from: the displayed sheet's stored map,
\* the empty map for a sheet never verified
SummarizedMap == IF activeSheet \in DOMAIN sheetVerifications
                 THEN sheetVerifications[activeSheet] ELSE EmptyMap

\* the identifier verdicts of a map, placeholder verdicts included
IdentifierVerdicts(map) == {k \in DOMAIN map : IsIdentifierVerdict(map[k])}

\* p is found / total * 100 rounded to the nearest integer, halves upwards
IsRounded(p, found, total) ==
  /\ 2 * total * p <= 200 * found + total
  /\ 200 * found + total < 2 * total * (p + 1)

(***************************************************************************)
(* C16: for every verification map and every adapter, found + notFound =   *)
(* total = the number of identifier verdicts; found is the number of       *)
(* identifier verdicts whose entry for the adapter has exists = true,      *)
(* placeholders counting as not found; percentage is found / total * 100   *)
(* rounded when total > 0 and 0 otherwise, hence within 0..100; for an     *)
(* empty map every count and every percentage is 0.                        *)
(***************************************************************************)
C16_AdapterStatistics ==
  LET map == SummarizedMap
      ids == IdentifierVerdicts(map)
      FoundBy(a) ==
        {k \in ids : /\ ~IsPlaceholderVerdict(map[k])
                     /\ a \in DOMAIN map[k].verificationDetails.sources
                     /\ map[k].verificationDetails.sources[a].exists}
  IN /\ \A a \in StatAdapters :
          LET st == summary.stats[a]
          IN /\ st.found + st.notFound = st.total
             /\ st.total = Cardinality(ids)
             /\ st.found = Cardinality(FoundBy(a))
             /\ st.percentage \in 0..100
             /\ IF st.total > 0 THEN IsRounded(st.percentage, st.found, st.total)
                                ELSE st.percentage = 0
     /\ DOMAIN map = {} =>
          /\ \A f \in CountFields \cup {"total", "foundInAny"} : summary.stats[f] = 0
          /\ \A a \in StatAdapters :
               summary.stats[a] = [total |-> 0, found |-> 0, notFound |-> 0, percentage |-> 0]

\* the summary of a map with placeholders, in which an adapter has found one
\* identifier verdict of three, which is 33 per cent
C16_Witness ==
  /\ activeSheet \in DOMAIN sheetVerifications
  /\ \E k \in IdentifierVerdicts(SummarizedMap) : IsPlaceholderVerdict(SummarizedMap[k])
  /\ \E a \in StatAdapters :
       summary.stats[a] = [total |-> 3, found |-> 1, notFound |-> 2, percentage |-> 33]

\* calculateStats applied to the stored map of sheet n alone
OwnStats(n) == calculateStats(sheetVerifications[n], NoMap)

RECURSIVE SumOfOwnStats(_, _)
\* the sum of one count field of the own statistics of the sheets in names
SumOfOwnStats(names, f) ==
  IF names = {} THEN 0
  ELSE LET n == CHOOSE m \in names : TRUE
       IN OwnStats(n)[f] + SumOfOwnStats(names \ {n}, f)

\* the summary was given every sheet's stored map
AllSheetsSummarized == summary.allSheetsStats # NoStats

\* sheet n has found found-in-all verdicts among total identifier verdicts
OwnCounts(n, found, total) ==
  /\ n \in DOMAIN sheetVerifications
  /\ OwnStats(n).uuidTotal = total
  /\ OwnStats(n).uuidFoundInAll = found

(***************************************************************************)
(* C17: calculateAllSheetsStats returns, for every count field, the sum    *)
(* over all sheets of calculateStats applied to that sheet's own map, also *)
(* when sheets use the same coordinate keys and whatever sheet is          *)
(* displayed; two sheets with 3 of 5 and 2 of 4 found-in-all (the others   *)
(* holding no identifier verdict) give total 9, found-in-all 5 and 56 per  *)
(* cent.                                                                   *)
(***************************************************************************)
C17_AllSheetsAreSummed ==
  AllSheetsSummarized =>
    /\ \A f \in CountFields :
         summary.allSheetsStats[f] = SumOfOwnStats(DOMAIN sheetVerifications, f)
    /\ \A a, b \in DOMAIN sheetVerifications :
         (/\ OwnCounts(a, 3, 5) /\ OwnCounts(b, 2, 4)
          /\ \A n \in DOMAIN sheetVerifications \ {a, b} : OwnStats(n).uuidTotal = 0)
         => /\ summary.allSheetsStats.uuidTotal = 9
            /\ summary.allSheetsStats.uuidFoundInAll = 5
            /\ AllSheetsPercentage(summary.allSheetsStats) = 56

\* two sheets that share a coordinate key hold 3 of 5 and 2 of 4, the displayed
\* sheet is a third one whose map is empty, and the summary shows 9, 5 and 56
C17_Witness ==
  /\ AllSheetsSummarized
  /\ \E a, b \in DOMAIN sheetVerifications :
       /\ OwnCounts(a, 3, 5) /\ OwnCounts(b, 2, 4)
       /\ DOMAIN sheetVerifications[a] \cap DOMAIN sheetVerifications[b] # {}
       /\ activeSheet \in DOMAIN sheetVerifications \ {a, b}
       /\ sheetVerifications[activeSheet] = EmptyMap
  /\ summary.allSheetsStats.uuidTotal = 9
  /\ summary.allSheetsStats.uuidFoundInAll = 5
  /\ AllSheetsPercentage(summary.allSheetsStats) = 56

(***************************************************************************)
(* C19: when the verification of sheet S completes, the stored map of S    *)
(* becomes exactly the map of that run (the empty map when the run failed) *)
(* and the stored maps of all other sheets are unchanged; every run starts *)
(* from an empty map, and the stored maps change at no other time.         *)
(***************************************************************************)
C19_CompletionReplacesOneMap ==
  [][LET completes == pc \in {"returned", "rejected"} /\ pc' = "idle"
     IN /\ completes =>
             /\ DOMAIN sheetVerifications' = DOMAIN sheetVerifications \cup {sheetName}
             /\ sheetVerifications'[sheetName] =
                  (IF pc = "returned" THEN verificationData ELSE EmptyMap)
             /\ \A n \in DOMAIN sheetVerifications \ {sheetName} :
                  sheetVerifications'[n] = sheetVerifications[n]
        /\ ~completes => sheetVerifications' = sheetVerifications
        /\ pc' = "start" => verificationData' = EmptyMap
    ]_vars

\* a run of a sheet that has a stored map ends with another map, while another
\* sheet is displayed and a third sheet has a stored map as well
C19_Witness ==
  /\ pc \in {"returned", "rejected"}
  /\ sheetName \in DOMAIN sheetVerifications
  /\ sheetVerifications[sheetName] # EmptyMap
  /\ sheetVerifications[sheetName] # verificationResults
  /\ activeSheet # sheetName
  /\ \E n \in DOMAIN sheetVerifications \ {sheetName} : sheetVerifications[n] # EmptyMap

\* the rows for which registry lookups have been started
LookedUpRows == {events[i].row : i \in {j \in 1..Len(events) : events[j].e = "lookup"}}

(***************************************************************************)
(* C21: in verifySheetData the lookups of a row are not started until the  *)
(* verdicts of the row before have been stored: the only row whose lookups *)
(* have been started and which has no verdict is the current row, while    *)
(* the verifier waits for it; lookups are pending for the current row      *)
(* only; and every verdict that enters the map belongs to the current row, *)
(* which lies beyond the rows of all verdicts stored before.               *)
(***************************************************************************)
C21_OneRowInFlight ==
  [][LET OneRowPending ==
           /\ \A r \in LookedUpRows :
                ~HasVerdictAt(IdKey(r)) => (r = rowIndex /\ pc = "awaiting")
           /\ (\E a \in Adapters : calls[a].st = "pending") => pc = "awaiting"
           /\ \A r \in LookedUpRows : r <= rowIndex
         entered == DOMAIN verificationData' \ DOMAIN verificationData
     IN mode \in {"registry", "registryDemo"} =>
          /\ OneRowPending'
          /\ \A k \in entered :
               /\ verificationData'[k].rowIndex = rowIndex
               /\ \A old \in DOMAIN verificationData :
                    verificationData[old].rowIndex < verificationData'[k].rowIndex
    ]_vars

\* the lookups of the second row are pending, one of them has answered, and
\* the first row, which was looked up too, has its verdict
C21_Witness ==
  /\ mode = "registry"
  /\ pc = "awaiting"
  /\ rowIndex = 1
  /\ LookedUpRows = {0, 1}
  /\ HasVerdictAt(IdKey(0))
  /\ ~HasVerdictAt(IdKey(1))
  /\ \E a, b \in Adapters : calls[a].st = "settled" /\ calls[b].st = "pending"

\* the number of fetches of the form document of environment env so far
FetchCount(env) ==
  Cardinality({i \in 1..Len(events) : events[i].e = "fetch" /\ events[i].who = env})

(***************************************************************************)
(* C22: in a form-mode run that has an identifier column, each              *)
(* environment's form document is fetched exactly once, before the first   *)
(* row is processed, whatever the number of rows and identifiers; the two  *)
(* indexes are built once, when the fetches have settled, and are not      *)
(* changed while rows are processed.                                       *)
(***************************************************************************)
C22_FormIndexBuiltOnce ==
  [][LET FetchedOnceFirst ==
           /\ \A env \in FormEnvs :
                FetchCount(env) = (IF pc = "start" THEN 0 ELSE 1)
           /\ \A i, j \in 1..Len(events) :
                (events[i].e = "fetch" /\ events[j].e \in {"progress", "get"}) => i < j
           /\ pc \in {"start", "fetching"} => rowIndex = 0 /\ verificationData = EmptyMap
     IN (mode = "form" /\ LocatedColumns.uuidColumnIndex # NoColumn) =>
          /\ FetchedOnceFirst'
          /\ (pc # "fetching" /\ pc' = "fetching") => pc = "start"
          /\ <<formUuidsDev', formUuidsUat'>> # <<formUuidsDev, formUuidsUat>>
               => (pc = "fetching" /\ pc' = "loop")
          /\ pc = "loop" => (formUuidsDev' = formUuidsDev /\ formUuidsUat' = formUuidsUat)
    ]_vars

\* a form-mode run has looked two rows up in the indexes and returned, each
\* document having been fetched once
C22_Witness ==
  /\ mode = "form"
  /\ pc = "returned"
  /\ AdapterInvokedFor(0) /\ AdapterInvokedFor(1)
  /\ formUuidsDev # EmptyMap
  /\ \A env \in FormEnvs : FetchCount(env) = 1

\* the adapters a mode is configured with
ConfiguredAdapters == IF mode = "form" THEN {"o3formsDev", "o3formsUat"} ELSE Adapters

\* the rows verified so far whose identifier cell holds a placeholder verdict
PlaceholderRows ==
  {r \in DoneRows : /\ HasIdentifierCell(r)
                    /\ HasVerdictAt(IdKey(r))
                    /\ IsPlaceholderVerdict(verificationData[IdKey(r)])}

(***************************************************************************)
(* C23 as stated: the verdict of a placeholder cell has no entry in        *)
(* sources for any adapter configured for the mode (not checked).          *)
(***************************************************************************)
C23_PlaceholderAdaptersNotChecked ==
  mode \in {"registry", "form"} =>
    \A r \in PlaceholderRows :
      \A a \in ConfiguredAdapters :
        a \notin DOMAIN verificationData[IdKey(r)].verificationDetails.sources

(***************************************************************************)
(* C23 amended: the verdict of a placeholder cell holds, for every adapter *)
(* configured for the mode, the entry exists = false with no datatype, the *)
(* entry of an adapter that searched and did not find, although no adapter *)
(* was invoked for the row; it has no entry for any other adapter.         *)
(***************************************************************************)
C23_PlaceholderAdaptersNotFound ==
  mode \in {"registry", "form"} =>
    \A r \in PlaceholderRows :
      LET sources == verificationData[IdKey(r)].verificationDetails.sources
      IN /\ DOMAIN sources = ConfiguredAdapters
         /\ \A a \in ConfiguredAdapters : sources[a] = [exists |-> FALSE]
         /\ ~AdapterInvokedFor(r)

\* a placeholder verdict with an entry for every configured adapter, stored
\* after a row whose identifier was looked up
C23_Witness ==
  /\ mode \in {"registry", "form"}
  /\ \E r \in PlaceholderRows, q \in DoneRows :
       /\ q < r
       /\ AdapterInvokedFor(q)
       /\ ConfiguredAdapters \subseteq DOMAIN verificationData[IdKey(r)].verificationDetails.sources

(***************************************************************************)
(* C24: the last matching header is the column used                        *)
(***************************************************************************)
\* the header test of the running verifier
MatchesInMode(header, names) ==
  IF mode = "form" THEN HeaderMatchesIgnoreCase(header, names)
  ELSE HeaderMatches(header, names)

\* the 0-based indexes of the headers that match one of the names
MatchingColumns(names) ==
  {i \in 0..(Len(headers) - 1) : MatchesInMode(headers[i + 1], names)}

\* the last matching header from the left, or no column
LastMatchingColumn(names) ==
  IF MatchingColumns(names) = {} THEN NoColumn
  ELSE CHOOSE i \in MatchingColumns(names) : \A j \in MatchingColumns(names) : j <= i

UuidNamesInMode == IF mode = "form" THEN O3_UUID_COLUMN_NAMES ELSE UUID_COLUMN_NAMES
DatatypeNamesInMode == IF mode = "form" THEN O3_DATATYPE_COLUMN_NAMES ELSE DATATYPE_COLUMN_NAMES

\* C24: once the verifier has located its columns, the identifier column
\* and the datatype column are each the last header from the left that
\* matches one of the configured names, in registry mode and in form mode
\* (the only match when there is one, no column when there is none).
C24_LastMatchingHeaderWins ==
  pc \notin {"start", "idle"} =>
    /\ uuidColumnIndex = LastMatchingColumn(UuidNamesInMode)
    /\ datatypeColumnIndex = LastMatchingColumn(DatatypeNamesInMode)

(***************************************************************************)
(* C25: headers are compared case-sensitively in both modes                *)
(***************************************************************************)
\* C25: in both modes a located identifier (or datatype) column is a header
\* that contains one of the mode's configured names with exactly that
\* letter case, and the columns located are the ones the registry scan
\* locates for the same header row.
C25_CaseSensitiveColumns ==
  pc \notin {"start", "idle"} =>
    /\ uuidColumnIndex # NoColumn =>
         HeaderMatches(headers[uuidColumnIndex + 1], UuidNamesInMode)
    /\ datatypeColumnIndex # NoColumn =>
         HeaderMatches(headers[datatypeColumnIndex + 1], DatatypeNamesInMode)
    /\ uuidColumnIndex = identifySpecialColumns(headers).uuidColumnIndex
    /\ datatypeColumnIndex = identifySpecialColumns(headers).datatypeColumnIndex

(***************************************************************************)
(* C26: identifier verdicts and datatype verdicts never share a coordinate *)
(***************************************************************************)
\* the rows for which the verifier has stored a verdict of either kind
RowsWithVerdict == {verificationData[key].rowIndex : key \in DOMAIN verificationData}

\* C26: in registry mode and in form mode, for every header row, a row for
\* which verdicts are stored still has its identifier verdict at its
\* identifier coordinate (the datatype verdict of the row has not replaced
\* it), and the aggregator puts no map entry into both of its groups.
C26_DatatypeNeverOverwritesIdentifier ==
  mode # "registryDemo" =>
    /\ \A r \in RowsWithVerdict :
         /\ HasVerdictAt(IdKey(r))
         /\ IsIdentifierVerdict(verificationData[IdKey(r)])
    /\ UuidCellKeys(verificationData) \cap DatatypeCellKeys(verificationData) = {}

(***************************************************************************)
(* C27: the explanation text agrees with the verdict it is stored with     *)
(***************************************************************************)
\* the label createTooltipContent prints for a registry adapter
AdapterLabel(a) ==
  CASE a = "oclSource" -> "OCL Source"
    [] a = "oclCollection" -> "OCL Collection"
    [] a = "openmrsDev" -> "OpenMRS DEV"
    [] a = "openmrsUat" -> "OpenMRS UAT"

\* the number of places where sub occurs in s
Occurrences(s, sub) ==
  Cardinality({i \in 1..(Len(s) - Len(sub) + 1) : SubSeq(s, i, i + Len(sub) - 1) = sub})

ListedFound(text, a) == Occurrences(text, "- " \o AdapterLabel(a) \o ": Found\n")
ListedNotFound(text, a) == Occurrences(text, "- " \o AdapterLabel(a) \o ": Not Found\n")

\* the identifier verdicts of the map
IdentifierKeys ==
  {key \in DOMAIN verificationData : IsIdentifierVerdict(verificationData[key])}

\* C27: in registry mode the explanation stored with an identifier verdict
\* has the line "Valid: Yes" exactly when the verdict's isValid is true,
\* and lists each of the four adapters once, as "Found" exactly when the
\* adapter reported exists = true for the identifier and as "Not Found"
\* otherwise.
C27_ExplanationAgreesWithVerdict ==
  mode = "registry" =>
    \A key \in IdentifierKeys :
      LET cell == verificationData[key]
          text == cell.tooltipContent
      IN /\ Includes(text, "Valid: Yes\n") <=> cell.isValid
         /\ \A a \in Adapters :
              /\ ListedFound(text, a) + ListedNotFound(text, a) = 1
              /\ ListedFound(text, a) = 1 <=>
                   (~IsPlaceholderVerdict(cell) /\ Reports(a))

(***************************************************************************)
(* C28: the grid renders the active sheet with that sheet's own verdicts   *)
(***************************************************************************)
\* props.verificationData || localVerificationData of the grid
GridVerificationData ==
  IF activeSheet \in DOMAIN sheetVerifications
  THEN sheetVerifications[activeSheet] ELSE localVerificationData

\* every verdict of the map lies on a cell of sheet `name`, and an identifier
\* verdict carries the text of that cell
ComputedFromSheet(map, name) ==
  \A key \in DOMAIN map :
    LET cell == map[key]
        rows == DataOf(name)
    IN /\ cell.rowIndex < Len(rows)
       /\ cell.colIndex < Len(rows[cell.rowIndex + 1])
       /\ IsIdentifierVerdict(cell) =>
            cell.value = JsString(rows[cell.rowIndex + 1][cell.colIndex + 1])

\* C28: the verdicts the grid renders the active sheet with were computed
\* from the active sheet's rows, and the map stored under a sheet's name was
\* computed from that sheet's rows, whenever the sheet is changed during a
\* run.
C28_GridShowsOwnSheetVerdicts ==
  /\ ComputedFromSheet(GridVerificationData, activeSheet)
  /\ \A name \in DOMAIN sheetVerifications :
       ComputedFromSheet(sheetVerifications[name], name)

(***************************************************************************)
(* C29: a triggered verification completes                                 *)
(***************************************************************************)
\* C29: whenever the verifying flag is set, it is eventually cleared again,
\* whatever the active sheet contains.
C29_VerifyingEventuallyEnds == isVerifying ~> ~isVerifying

(***************************************************************************)
(* C30: the counts of calculateStats add up                                *)
(***************************************************************************)
\* C30: the counts calculateStats returns for the displayed map satisfy
\* uuidTotal = uuidFoundInAll + uuidDiscrepancies + uuidNotFoundInAny,
\* uuidFoundInAny = uuidFoundInAll + uuidDiscrepancies,
\* uuidNotFoundIndicators <= uuidNotFoundInAny, and
\* datatypeMatched + datatypeMismatched = datatypeTotal.
C30_CountsAddUp ==
  LET stats == summary.stats
  IN /\ stats.uuidTotal =
          stats.uuidFoundInAll + stats.uuidDiscrepancies + stats.uuidNotFoundInAny
     /\ stats.uuidFoundInAny = stats.uuidFoundInAll + stats.uuidDiscrepancies
     /\ stats.uuidNotFoundIndicators <= stats.uuidNotFoundInAny
     /\ stats.datatypeMatched + stats.datatypeMismatched = stats.datatypeTotal

\* a summary of a map with found and placeholder identifiers and with
\* matching and mismatching datatype cells
C30_Witness ==
  /\ summary.stats.uuidFoundInAll > 0
  /\ summary.stats.uuidNotFoundIndicators > 0
  /\ summary.stats.datatypeMatched > 0
  /\ summary.stats.datatypeMismatched > 0

====
